---- MODULE Spec2Model ----
(***************************************************************************)
(* Orchestration layer of the multi-agent API server: identity resolver,   *)
(* session manager (get_or_create_session), tool invocation guard          *)
(* (validate_user_before_tool), the agent registry, the event normalizer   *)
(* and aggregator (run_agent, chat_with_agent), the streaming emitter      *)
(* (chat_stream_with_agent.event_generator) and the session and agent      *)
(* endpoints (create_session, list_agents, get_agent_info, quick_chat).    *)
(*                                                                         *)
(* Python values are modelled as follows.  A dict is a function with a     *)
(* string domain; d.get(k) is Get(d, k).  Python's None is the string      *)
(* None where the other values are strings, and a tagged record where      *)
(* they are not.  The raw events of the runner, whose fields are read with *)
(* hasattr and getattr, are tagged records throughout (PyNone, PyStr,      *)
(* PyList, PyDict, PyObj).  Chinese string literals are written in ASCII:  *)
(* "GUEST_" is the guest-name prefix (U+8A2A U+5BA2 "_"), "UNKNOWN_DEPT"   *)
(* is the guest department (U+672A U+77E5) and FALLBACK is the apology     *)
(* run_agent returns when a turn produced no text.                         *)
(*                                                                         *)
(* The tools of the meeting_room agent (meeting_room_agent/tools.py) are   *)
(* modelled with their in-memory tables as state.  The error messages of   *)
(* the tools are written as short ASCII codes, and dates are the strings   *)
(* the tools receive, parsed by strptime into a day number.  The tools of   *)
(* the order agent (order_agent/agent.py) and of the expense agent         *)
(* (expense_agent/agent.py) are modelled the same way; the timestamps they *)
(* write and never read are the token Now.                                 *)
(***************************************************************************)
EXTENDS Naturals, Integers, Sequences, FiniteSets, TLC

(***************************************************************************)
(* Bounds of the model.                                                    *)
(***************************************************************************)
\* number of request handlers that may be in flight at the same time
NumHandlers == 2
\* number of requests the server receives
MaxRequests == 2
\* number of session ids uuid4() hands out
MaxUuid == 1
\* number of raw events the runner yields in a turn
MaxEvents == 2
\* number of bookings book_room creates
MaxBookings == 2
\* the last day the clock of the meeting-room tools reaches
MaxDay == 2
\* number of orders create_order creates
MaxOrders == 1
\* number of tool calls of the order agent
MaxOrderCalls == 5
\* number of expense reports submit_expense creates
MaxExpenses == 1
\* number of approve_expense and process_payment calls
MaxExpenseCalls == 5

None == "None"

Handlers == 1..NumHandlers

\* request inputs
UserIds == {"EMP001", "zzzz"}
SessionIds == {"s1"}
RequestAgents == {"meeting_room", "expense"}
ToolNames == {"book_room", "list_buildings", "submit_expense"}
CallerUserIds == {"EMP002"}
ToolValues == {"v1", "v2"}

(***************************************************************************)
(* shared/user_service.py                                                  *)
(***************************************************************************)

\* str.upper() on the ids the model draws
Upper(s) ==
    CASE s = "emp001" -> "EMP001"
      [] s = "emp002" -> "EMP002"
      [] s = "zzzz" -> "ZZZZ"
      [] s = "a-101" -> "A-101"
      [] s = "z-999" -> "Z-999"
      [] Len(s) >= 2 /\ SubSeq(s, 1, 2) = "bk" -> "BK" \o SubSeq(s, 3, Len(s))
      [] OTHER -> s

\* dataclass UserInfo: job_title and phone default to None
UserInfo(user_id, user_name, department, email, job_title, phone) ==
    [user_id |-> user_id, user_name |-> user_name, department |-> department,
     email |-> email, job_title |-> job_title, phone |-> phone]

MOCK_USER_DATABASE ==
    [id \in {"EMP001", "EMP002", "EMP003", "EMP004", "EMP005"} |->
        CASE id = "EMP001" ->
               UserInfo("EMP001", "Wang Xiaoming", "IT",
                        "wang.xiaoming@company.com", "Software Engineer", "0912-345-678")
          [] id = "EMP002" ->
               UserInfo("EMP002", "Li Xiaohua", "HR",
                        "li.xiaohua@company.com", "HR Specialist", "0923-456-789")
          [] id = "EMP003" ->
               UserInfo("EMP003", "Zhang Dawei", "Sales",
                        "zhang.dawei@company.com", "Sales Manager", "0934-567-890")
          [] id = "EMP004" ->
               UserInfo("EMP004", "Chen Meiling", "Finance",
                        "chen.meiling@company.com", "Finance Lead", "0945-678-901")
          [] id = "EMP005" ->
               UserInfo("EMP005", "Lin Zhihao", "R&D",
                        "lin.zhihao@company.com", "CTO", "0956-789-012")]

\* mutant: asdict(self), the None fields kept
to_dict_with_nulls(user) == user

\* UserInfo.to_dict: the fields whose value is not None
to_dict(user) ==
    [k \in {f \in DOMAIN user : user[f] # None} |-> user[k]]

\* the tagged Optional[UserInfo] get_user_by_id returns
NoUser == [found |-> FALSE]

get_user_by_id(user_id) ==
    IF Upper(user_id) \in DOMAIN MOCK_USER_DATABASE
    THEN [found |-> TRUE, user |-> MOCK_USER_DATABASE[Upper(user_id)]]
    ELSE NoUser

\* mutant: one guest name for every unknown id
create_guest_without_id(user_id) ==
    LET r == get_user_by_id(user_id)
    IN  IF r.found
        THEN r.user
        ELSE UserInfo(user_id, "GUEST_", "UNKNOWN_DEPT",
                      user_id \o "@guest.local", None, None)

\* mutant: a guest identity without an id
create_guest_anonymous(user_id) ==
    LET r == get_user_by_id(user_id)
    IN  IF r.found
        THEN r.user
        ELSE UserInfo(None, "GUEST_" \o user_id, "UNKNOWN_DEPT",
                      user_id \o "@guest.local", None, None)

get_user_by_id_or_create_guest(user_id) ==
    LET r == get_user_by_id(user_id)
    IN  IF r.found
        THEN r.user
        ELSE UserInfo(user_id, "GUEST_" \o user_id, "UNKNOWN_DEPT",
                      user_id \o "@guest.local", None, None)

\* mutant: the identity without the is_registered mark
state_dict_unmarked(user) == to_dict(user)

get_user_state_dict(user) ==
    LET state == to_dict(user)
    IN  [k \in DOMAIN state \cup {"is_registered"} |->
            IF k = "is_registered" THEN TRUE ELSE state[k]]

\* dict.get(k) with default None
Get(d, k) == IF k \in DOMAIN d THEN d[k] ELSE None

\* mutant: only an explicit False counts as unregistered
TruthyUnlessFalse(d, k) == k \notin DOMAIN d \/ d[k] = TRUE

\* Python truth of d.get(k) for a key that holds a bool when present
Truthy(d, k) == k \in DOMAIN d /\ d[k] = TRUE

(***************************************************************************)
(* The tool invocation guard: create_user_validation_callback and the      *)
(* closure validate_user_before_tool it returns.                           *)
(***************************************************************************)

\* tools_requiring_user: list[str] | None
ToolsNone == [is_none |-> TRUE, names |-> {}]
ToolList(names) == [is_none |-> FALSE, names |-> names]

\* the fixed default message
default_error == "DEFAULT_ERROR"

\* what the callback returns: None, or the block payload
NoneRet == [kind |-> "None"]
BlockPayload(error_message) ==
    [kind |-> "dict", status |-> "blocked",
     error_message |-> IF error_message \in {None, ""}
                       THEN default_error ELSE error_message]

\* mutant: `if tools_requiring_user and ...`, an empty list read like None
IsGatedUnlessEmpty(tools_requiring_user, tool_name) ==
    \/ tools_requiring_user.is_none
    \/ tools_requiring_user.names = {}
    \/ tool_name \in tools_requiring_user.names

\* line 194 negated: the callback goes on to check this tool
IsGated(tools_requiring_user, tool_name) ==
    ~(~tools_requiring_user.is_none /\ tool_name \notin tools_requiring_user.names)

\* mutant: args.setdefault("user_id", ...), a caller-supplied value kept
InjectUserIdIfAbsent(args, state) ==
    [k \in DOMAIN args \cup {"user_id"} |->
        IF k \in DOMAIN args THEN args[k] ELSE Get(state, "user_id")]

\* args["user_id"] = state.get("user_id")
InjectUserId(args, state) ==
    [k \in DOMAIN args \cup {"user_id"} |->
        IF k = "user_id" THEN Get(state, "user_id") ELSE args[k]]

\* mutant: the injection done before the gate check, for every tool name
validate_injecting_first(tools_requiring_user, error_message, tool_name, args, state) ==
    IF ~IsGated(tools_requiring_user, tool_name)
    THEN [ret |-> NoneRet, args |-> InjectUserId(args, state), state |-> state]
    ELSE IF ~Truthy(state, "is_registered")
         THEN [ret |-> BlockPayload(error_message), args |-> args, state |-> state]
         ELSE [ret |-> NoneRet, args |-> InjectUserId(args, state), state |-> state]

\* mutant: a blocked call recorded in the session state
validate_recording_block(tools_requiring_user, error_message, tool_name, args, state) ==
    IF ~IsGated(tools_requiring_user, tool_name)
    THEN [ret |-> NoneRet, args |-> args, state |-> state]
    ELSE IF ~Truthy(state, "is_registered")
         THEN [ret |-> BlockPayload(error_message), args |-> args,
               state |-> [k \in DOMAIN state \cup {"blocked_tool"} |->
                             IF k = "blocked_tool" THEN tool_name ELSE state[k]]]
         ELSE [ret |-> NoneRet, args |-> InjectUserId(args, state), state |-> state]

\* the callback's result: its return value, and args and tool_context.state
\* as it leaves them (state is only read, with state.get)
validate_user_before_tool(tools_requiring_user, error_message, tool_name, args, state) ==
    IF ~IsGated(tools_requiring_user, tool_name)
    THEN [ret |-> NoneRet, args |-> args, state |-> state]
    ELSE IF ~Truthy(state, "is_registered")
         THEN [ret |-> BlockPayload(error_message), args |-> args, state |-> state]
         ELSE [ret |-> NoneRet, args |-> InjectUserId(args, state), state |-> state]

(***************************************************************************)
(* The agent registry (api_server.load_agents) with each agent's tools and *)
(* before_tool_callback.                                                   *)
(***************************************************************************)
NoCallback == [present |-> FALSE]

user_validation_callback ==
    [present |-> TRUE,
     tools_requiring_user |-> ToolList({"book_room", "get_my_bookings", "cancel_booking"}),
     error_message |-> None]

AgentIds ==
    {"meeting_room", "assistant", "it_helpdesk", "expense", "research", "ticket", "order"}

AgentTools(agent_id) ==
    CASE agent_id = "meeting_room" ->
           {"get_current_user", "list_buildings", "list_available_rooms",
            "book_room", "get_my_bookings", "cancel_booking"}
      [] agent_id = "assistant" -> {"get_weather", "get_current_time"}
      [] agent_id = "it_helpdesk" -> {"search_knowledge_base", "get_ticket_status"}
      [] agent_id = "expense" ->
           {"submit_expense", "get_expense_status", "list_my_expenses",
            "list_pending_approvals", "approve_expense", "process_payment",
            "get_expense_summary"}
      [] agent_id = "research" ->
           {"search_news", "search_papers", "get_market_statistics",
            "get_company_info", "generate_research_report"}
      [] agent_id = "ticket" ->
           {"create_ticket", "get_ticket", "list_tickets", "update_ticket_status",
            "add_ticket_response", "escalate_ticket", "get_ticket_history"}
      [] agent_id = "order" ->
           {"create_order", "validate_order", "check_inventory", "check_risk",
            "approve_order", "reject_order", "handle_stock_decision",
            "process_order", "get_order_status", "get_review_queue",
            "get_inventory_status"}

\* the before_tool_callback each root_agent is constructed with
AgentCallback(agent_id) ==
    IF agent_id = "meeting_room" THEN user_validation_callback ELSE NoCallback

\* the display name and description of each entry, in ASCII
AgentName(agent_id) ==
    CASE agent_id = "meeting_room" -> "Meeting Room Assistant"
      [] agent_id = "assistant" -> "Smart Assistant"
      [] agent_id = "it_helpdesk" -> "IT Helpdesk"
      [] agent_id = "expense" -> "Expense Approval"
      [] agent_id = "research" -> "Research Assistant"
      [] agent_id = "ticket" -> "Support Tickets"
      [] agent_id = "order" -> "Order Processing"

AgentDescription(agent_id) ==
    CASE agent_id = "meeting_room" -> "find, book and manage meeting rooms"
      [] agent_id = "assistant" -> "weather and time"
      [] agent_id = "it_helpdesk" -> "A2A demo"
      [] agent_id = "expense" -> "Sequential workflow"
      [] agent_id = "research" -> "Parallel workflow"
      [] agent_id = "ticket" -> "Loop workflow"
      [] agent_id = "order" -> "Human-in-the-Loop"

\* the order in which load_agents assigns registry[agent_id]
AgentOrder ==
    <<"meeting_room", "assistant", "it_helpdesk", "expense", "research", "ticket", "order">>

\* a dict whose iteration order matters is the sequence of its items, each key
\* once, in insertion order: d.keys(), `k in d`, d[k]
Keys(d) == [i \in 1..Len(d) |-> d[i].key]
HasKey(d, k) == \E i \in 1..Len(d) : d[i].key = k
Item(d, k) == d[CHOOSE i \in 1..Len(d) : d[i].key = k].value

\* every import succeeds: the registry holds the seven agents
load_agents ==
    [i \in 1..Len(AgentOrder) |->
        [key |-> AgentOrder[i],
         value |-> [name |-> AgentName(AgentOrder[i]),
                    description |-> AgentDescription(AgentOrder[i]),
                    tools |-> AgentTools(AgentOrder[i]),
                    before_tool_callback |-> AgentCallback(AgentOrder[i])]]]

(***************************************************************************)
(* Raw events of runner.run_async.  A Python value is a tagged record:     *)
(* None, a str, a list, a dict or an object with its attributes.  The      *)
(* fields of the events drawn are absent, None, a list or an object; tool  *)
(* arguments are absent, None, a dict, a str or an object.                 *)
(***************************************************************************)
PyNone == [t |-> "None"]
PyStr(s) == [t |-> "str", s |-> s]
PyList(items) == [t |-> "list", items |-> items]
PyDict(d) == [t |-> "dict", d |-> d]
PyObj(attrs) == [t |-> "obj", attrs |-> attrs]

hasattr(o, a) == o.t = "obj" /\ a \in DOMAIN o.attrs
getattr(o, a, default) == IF hasattr(o, a) THEN o.attrs[a] ELSE default

\* Python truth of a value
bool(v) ==
    CASE v.t = "None" -> FALSE
      [] v.t = "str" -> v.s # ""
      [] v.t = "list" -> Len(v.items) # 0
      [] v.t = "dict" -> DOMAIN v.d # {}
      [] OTHER -> TRUE

\* a or b
Or(a, b) == IF bool(a) THEN a ELSE b

\* str(v)
str(v) ==
    CASE v.t = "None" -> PyStr("None")
      [] v.t = "str" -> v
      [] v.t = "list" -> PyStr("[...]")
      [] v.t = "dict" -> PyStr("{...}")
      [] OTHER -> PyStr("<object>")

\* the exceptions of the model, by what str(e) gives
TypeError == "'NoneType' object is not iterable"
AttributeError == "object has no attribute 'get'"
RunnerError == "runner failed"

\* what a block of run_agent's loop body does with an event: the sub-events it
\* logged or collected, and the exception that ended it (None: it completed)
Ok(sub) == [exc |-> None, sub |-> sub]
Raise(e) == [exc |-> e, sub |-> <<>>]

\* logger.tool_call, logger.tool_result, response_parts.append
tool_call(tool_name, tool_args) == [kind |-> "ToolCall", name |-> tool_name, data |-> tool_args]
tool_result(tool_name, result) == [kind |-> "ToolResult", name |-> tool_name, data |-> result]
TextDelta(text) == [kind |-> "TextDelta", name |-> PyNone, data |-> text]

\* statements run one after the other: the first exception ends the run, what
\* ran before it stays logged
RECURSIVE Chain(_)
Chain(results) ==
    IF Len(results) = 0 THEN Ok(<<>>)
    ELSE IF Head(results).exc # None THEN Head(results)
    ELSE LET rest == Chain(Tail(results))
         IN  [exc |-> rest.exc, sub |-> Head(results).sub \o rest.sub]

\* `for x in v`: the items of a list; None and objects are not iterable
Iterable(v) == v.t = "list"

\* lines 511-515: args that are no dict go through dict(), which raises on a
\* non-empty str or an object
args_as_dict(tool_args) ==
    IF tool_args.t = "dict" THEN tool_args
    ELSE IF ~bool(tool_args) THEN PyDict(<<>>)
    ELSE PyDict([raw |-> str(tool_args)])

\* lines 554-555 and 563-564: args that are no dict are wrapped as they are
args_as_raw(tool_args) ==
    IF tool_args.t = "dict" THEN tool_args ELSE PyDict([raw |-> str(tool_args)])

\* d.get(k, default) on the value getattr(tc, 'function', {}) gave
dict_get(d, k, default) ==
    IF k \in DOMAIN d.d THEN d.d[k] ELSE default

\* `if hasattr(event, 'function_calls') and event.function_calls:` and its loop
function_calls_block(event) ==
    IF ~(hasattr(event, "function_calls") /\ bool(event.attrs.function_calls))
    THEN Ok(<<>>)
    ELSE IF ~Iterable(event.attrs.function_calls) THEN Raise(TypeError)
    ELSE LET calls == event.attrs.function_calls.items
         IN  Chain([i \in 1..Len(calls) |->
                 LET fc == calls[i]
                     tool_name == Or(getattr(fc, "name", PyNone), getattr(fc, "id", str(fc)))
                     tool_args == Or(getattr(fc, "args", PyNone),
                                     getattr(fc, "arguments", PyDict(<<>>)))
                 IN  Ok(<<tool_call(tool_name, args_as_dict(tool_args))>>)])

\* one part of content.parts: its function_call, then its function_response
part_block(part) ==
    LET call == IF hasattr(part, "function_call") /\ bool(part.attrs.function_call)
                THEN LET fc == part.attrs.function_call
                         tool_name == getattr(fc, "name", PyStr("unknown"))
                         tool_args == getattr(fc, "args", PyDict(<<>>))
                     IN  <<tool_call(tool_name, args_as_dict(tool_args))>>
                ELSE <<>>
        response == IF hasattr(part, "function_response") /\ bool(part.attrs.function_response)
                    THEN LET fr == part.attrs.function_response
                             tool_name == getattr(fr, "name", PyStr("unknown"))
                             result == Or(getattr(fr, "response", PyNone),
                                          getattr(fr, "result", str(fr)))
                         IN  <<tool_result(tool_name, result)>>
                    ELSE <<>>
    IN  Ok(call \o response)

\* `if hasattr(event, 'content') and event.content:` with the check of parts
content_parts_block(event) ==
    IF ~(hasattr(event, "content") /\ bool(event.attrs.content)) THEN Ok(<<>>)
    ELSE LET content == event.attrs.content
         IN  IF ~(hasattr(content, "parts") /\ bool(content.attrs.parts)) THEN Ok(<<>>)
             ELSE IF ~Iterable(content.attrs.parts) THEN Raise(TypeError)
             ELSE LET parts == content.attrs.parts.items
                  IN  Chain([i \in 1..Len(parts) |-> part_block(parts[i])])

function_responses_block(event) ==
    IF ~(hasattr(event, "function_responses") /\ bool(event.attrs.function_responses))
    THEN Ok(<<>>)
    ELSE IF ~Iterable(event.attrs.function_responses) THEN Raise(TypeError)
    ELSE LET responses == event.attrs.function_responses.items
         IN  Chain([i \in 1..Len(responses) |->
                 LET fr == responses[i]
                     tool_name == getattr(fr, "name", PyStr("unknown"))
                     result == Or(getattr(fr, "response", PyNone),
                                  getattr(fr, "result", str(fr)))
                 IN  Ok(<<tool_result(tool_name, result)>>)])

actions_tool_calls_block(event) ==
    IF ~(hasattr(event, "actions") /\ bool(event.attrs.actions)) THEN Ok(<<>>)
    ELSE LET actions == event.attrs.actions
         IN  IF ~(hasattr(actions, "tool_calls") /\ bool(actions.attrs.tool_calls))
             THEN Ok(<<>>)
             ELSE IF ~Iterable(actions.attrs.tool_calls) THEN Raise(TypeError)
             ELSE LET calls == actions.attrs.tool_calls.items
                  IN  Chain([i \in 1..Len(calls) |->
                          LET tc == calls[i]
                              tool_name == Or(getattr(tc, "name", PyNone),
                                              getattr(tc, "tool", PyStr("unknown")))
                              tool_args == Or(getattr(tc, "args", PyNone),
                                              getattr(tc, "arguments", PyDict(<<>>)))
                          IN  Ok(<<tool_call(tool_name, args_as_raw(tool_args))>>)])

\* one descriptor of event.tool_calls: .get() is called on whatever the
\* attribute function holds, once for the name and once for the args
tool_calls_item(tc) ==
    LET function == getattr(tc, "function", PyDict(<<>>))
        name == getattr(tc, "name", PyNone)
        args == getattr(tc, "args", PyNone)
    IN  IF (~bool(name) \/ ~bool(args)) /\ function.t # "dict"
        THEN Raise(AttributeError)
        ELSE LET tool_name == IF bool(name) THEN name
                              ELSE dict_get(function, "name", PyStr("unknown"))
                 tool_args == IF bool(args) THEN args
                              ELSE dict_get(function, "arguments", PyDict(<<>>))
             IN  Ok(<<tool_call(tool_name, args_as_raw(tool_args))>>)

tool_calls_block(event) ==
    IF ~(hasattr(event, "tool_calls") /\ bool(event.attrs.tool_calls)) THEN Ok(<<>>)
    ELSE IF ~Iterable(event.attrs.tool_calls) THEN Raise(TypeError)
    ELSE LET calls == event.attrs.tool_calls.items
         IN  Chain([i \in 1..Len(calls) |-> tool_calls_item(calls[i])])

tool_results_block(event) ==
    IF ~(hasattr(event, "tool_results") /\ bool(event.attrs.tool_results)) THEN Ok(<<>>)
    ELSE IF ~Iterable(event.attrs.tool_results) THEN Raise(TypeError)
    ELSE LET results == event.attrs.tool_results.items
         IN  Chain([i \in 1..Len(results) |->
                 LET tr == results[i]
                     tool_name == getattr(tr, "name", PyStr("unknown"))
                     result == Or(getattr(tr, "result", PyNone),
                                  getattr(tr, "content", str(tr)))
                 IN  Ok(<<tool_result(tool_name, result)>>)])

\* the text of one part: `if hasattr(part, 'text') and part.text:`
part_text(part) ==
    IF hasattr(part, "text") /\ bool(part.attrs.text)
    THEN <<TextDelta(part.attrs.text.s)>> ELSE <<>>

\* lines 575-579: content.parts is iterated once content has the attribute,
\* whatever it holds
text_block(event) ==
    IF ~(hasattr(event, "content") /\ bool(event.attrs.content)) THEN Ok(<<>>)
    ELSE LET content == event.attrs.content
         IN  IF ~hasattr(content, "parts") THEN Ok(<<>>)
             ELSE IF ~Iterable(content.attrs.parts) THEN Raise(TypeError)
             ELSE LET parts == content.attrs.parts.items
                  IN  Chain([i \in 1..Len(parts) |-> Ok(part_text(parts[i]))])

\* the body of run_agent's `async for event` loop, in the order of the code
run_agent_event(event) ==
    Chain(<<function_calls_block(event), content_parts_block(event),
            function_responses_block(event), actions_tool_calls_block(event),
            tool_calls_block(event), tool_results_block(event), text_block(event)>>)

\* the text of the sub-events collected into response_parts
RECURSIVE Texts(_)
Texts(sub) ==
    IF Len(sub) = 0 THEN <<>>
    ELSE (IF Head(sub).kind = "TextDelta" THEN <<Head(sub).data>> ELSE <<>>)
         \o Texts(Tail(sub))

\* "".join(response_parts)
RECURSIVE Join(_)
Join(response_parts) ==
    IF Len(response_parts) = 0 THEN ""
    ELSE Head(response_parts) \o Join(Tail(response_parts))

\* mutant: the texts of an event buffered and sent as one frame
stream_text_joined(event) ==
    LET r == text_block(event)
    IN  [exc |-> r.exc,
         sub |-> IF Len(Texts(r.sub)) = 0 THEN <<>>
                 ELSE <<TextDelta(Join(Texts(r.sub)))>>]

\* lines 778-782: the same iteration in event_generator, each text a frame
stream_text_block(event) ==
    IF ~(hasattr(event, "content") /\ bool(event.attrs.content)) THEN Ok(<<>>)
    ELSE LET content == event.attrs.content
         IN  IF ~hasattr(content, "parts") THEN Ok(<<>>)
             ELSE IF ~Iterable(content.attrs.parts) THEN Raise(TypeError)
             ELSE LET parts == content.attrs.parts.items
                  IN  Chain([i \in 1..Len(parts) |-> Ok(part_text(parts[i]))])

\* the fixed fallback response of line 581, in ASCII
FALLBACK == "SORRY_CANNOT_PROCESS"

\* mutant: the text of the last fragment only (response_parts[-1])
final_response_last(response_parts) ==
    IF Len(response_parts) # 0 THEN response_parts[Len(response_parts)] ELSE FALLBACK

\* mutant: the join returned as it is, empty when nothing was collected
final_response_joined(response_parts) == Join(response_parts)

\* line 581
final_response(response_parts) ==
    IF Len(response_parts) # 0 THEN Join(response_parts) ELSE FALLBACK

\* run_agent's loop over a whole raw event sequence: the texts collected, and
\* the exception of the first event whose processing raises, if one does
RECURSIVE run_agent_loop(_, _)
run_agent_loop(events, response_parts) ==
    IF Len(events) = 0
    THEN [exc |-> None, response_parts |-> response_parts]
    ELSE LET n == run_agent_event(Head(events))
         IN  IF n.exc # None
             THEN [exc |-> n.exc, response_parts |-> response_parts \o Texts(n.sub)]
             ELSE run_agent_loop(Tail(events), response_parts \o Texts(n.sub))

(***************************************************************************)
(* The raw events the runner yields in the model.                          *)
(***************************************************************************)
\* call and result descriptors
Call(name, room) == PyObj([name |-> PyStr(name), args |-> PyDict([room |-> PyStr(room)])])
Result(name, status) ==
    PyObj([name |-> PyStr(name), response |-> PyDict([status |-> PyStr(status)])])
TextPart(text) == PyObj([text |-> PyStr(text)])
Content(parts) == PyObj([parts |-> parts])

\* two text parts
EvText == PyObj([content |-> Content(PyList(<<TextPart("a"), TextPart("b")>>))])

\* parts with an empty text, a None text, no text attribute, a None part, a text
EvSparseText ==
    PyObj([content |-> Content(PyList(<<TextPart(""), PyObj([text |-> PyNone]),
                                         PyObj(<<>>), PyNone, TextPart("c")>>))])

\* one logical call exposed as a top-level call and as a nested-content call
EvTwoShapes ==
    PyObj([function_calls |-> PyList(<<Call("book_room", "A")>>),
           content |-> Content(PyList(<<PyObj([function_call |-> Call("book_room", "A")])>>))])

\* every shape populated at once
EvAllShapes ==
    PyObj([function_calls |-> PyList(<<Call("c_top", "A")>>),
           content |-> Content(PyList(<<
               PyObj([function_call |-> Call("c_nested1", "A"), text |-> PyStr("t")]),
               PyObj([function_response |-> Result("r_nested", "ok")]),
               PyObj([function_call |-> Call("c_nested2", "B")])>>)),
           function_responses |-> PyList(<<Result("r_top", "ok")>>),
           actions |-> PyObj([tool_calls |-> PyList(<<Call("c_action", "A")>>)]),
           tool_calls |-> PyList(<<PyObj([function |->
               PyDict([name |-> PyStr("c_alt"), arguments |-> PyDict(<<>>)])])>>),
           tool_results |-> PyList(<<PyObj([name |-> PyStr("r_alt"),
                                            result |-> PyStr("done")])>>)])

\* a content without parts (Content(role="model")), after a call
EvPartsNone ==
    PyObj([function_calls |-> PyList(<<Call("book_room", "A")>>),
           content |-> Content(PyNone)])

\* no optional field at all
EvEmpty == PyObj(<<>>)

\* every optional field None
EvAllNone ==
    PyObj([function_calls |-> PyNone, content |-> PyNone, function_responses |-> PyNone,
           actions |-> PyNone, tool_calls |-> PyNone, tool_results |-> PyNone])

\* every optional field empty
EvAllEmpty ==
    PyObj([function_calls |-> PyList(<<>>), content |-> Content(PyList(<<>>)),
           function_responses |-> PyList(<<>>), actions |-> PyObj(<<>>),
           tool_calls |-> PyList(<<>>), tool_results |-> PyList(<<>>)])

\* descriptors with missing, None and non-dict fields
EvOddDescriptors ==
    PyObj([function_calls |-> PyList(<<PyObj(<<>>), PyNone,
               PyObj([name |-> PyNone, id |-> PyStr("id1"), args |-> PyStr("k=v")])>>),
           content |-> Content(PyList(<<
               PyObj([function_call |-> PyObj([name |-> PyNone, args |-> PyNone])]),
               PyObj([function_response |-> PyObj([result |-> PyStr("r")])])>>)),
           function_responses |-> PyList(<<PyObj(<<>>)>>),
           actions |-> PyObj([tool_calls |-> PyList(<<
               PyObj([tool |-> PyStr("c_tool"), arguments |-> PyNone])>>)]),
           tool_calls |-> PyList(<<
               PyObj([name |-> PyStr("c_named"), args |-> PyStr("k=v")]),
               PyObj(<<>>)>>),
           tool_results |-> PyList(<<PyObj([content |-> PyStr("c")])>>)])

\* an alternate-named call whose function attribute is None, after a good one
\* and next to a top-level call
EvFunctionNone ==
    PyObj([function_calls |-> PyList(<<Call("book_room", "A")>>),
           tool_calls |-> PyList(<<
               PyObj([name |-> PyStr("c_named"), args |-> PyDict([room |-> PyStr("A")])]),
               PyObj([function |-> PyNone])>>)])

\* texts that read like the frames that end a stream
EvSentinelText ==
    PyObj([content |-> Content(PyList(<<TextPart("[DONE]"), TextPart("Error: x")>>))])

RawEvents ==
    {EvText, EvSparseText, EvTwoShapes, EvAllShapes, EvPartsNone, EvEmpty,
     EvAllNone, EvAllEmpty, EvOddDescriptors, EvFunctionNone, EvSentinelText}

(***************************************************************************)
(* State.                                                                  *)
(***************************************************************************)
VARIABLES
    sessions,   \* session_service: (app_name, user_id, session_id) -> state dict
    created,    \* per key, the create_session calls that stored a session
    nextUuid,   \* the uuid4() values handed out so far
    pc,         \* per handler, where its request stands
    req,        \* per handler, the request's agent_id, user_id, session_id
    user_info,  \* per handler, get_or_create_session's local user_info
    session,    \* per handler, what get_session returned (the state as found)
    result,     \* per handler, the session id get_or_create_session returned
    error,      \* per handler, the exception that ended the request
    served,     \* the requests received so far
    tool_exec,  \* per handler, the last tool call of the running turn
    resolver_calls \* per handler, the resolver calls its get_or_create_session made

VARIABLES
    g_tools_requiring_user, \* the guard's configured tool names
    g_error_message,        \* the guard's configured message
    g_tool_name,            \* tool.name of the call
    g_function_args,        \* args of the call as the model supplied them
    g_args,                 \* args of the call, mutated in place by the guard
    g_state,                \* tool_context.state
    g_ret,                  \* what the callback returned
    g_pc,                   \* "ready", "checked", "executed" or "blocked"
    g_tool_args             \* the args the tool function ran with

VARIABLES
    turn    \* per handler, the chat or stream turn of its request

VARIABLES
    AGENT_REGISTRY  \* the global registry, an ordered dict of agent_id -> entry

VARIABLES
    BOOKINGS,        \* meeting_room_agent.tools.BOOKINGS: booking_id -> booking
    booking_counter, \* meeting_room_agent.tools._booking_counter
    today,           \* datetime.now().date(), as a day number
    mr_call          \* the last tool call of the meeting_room agent

VARIABLES
    ORDERS_DB,      \* order_agent.agent.ORDERS_DB: order_id -> order
    INVENTORY,      \* order_agent.agent.INVENTORY: sku -> name, stock, price, reserved
    REVIEW_QUEUE,   \* order_agent.agent.REVIEW_QUEUE: list of review entries
    order_calls,    \* number of tool calls of the order agent so far
    order_call      \* the last tool call of the order agent

VARIABLES
    EXPENSE_REPORTS,  \* expense_agent.agent.EXPENSE_REPORTS: expense_id -> expense
    expense_counter,  \* expense_agent.agent._expense_counter
    expense_calls,    \* number of approve_expense and process_payment calls so far
    expense_call      \* the last tool call of the expense agent

storeVars == <<sessions, created, nextUuid>>
handlerVars == <<pc, req, user_info, session, result, error, served, tool_exec,
                 resolver_calls>>
sessionVars == <<storeVars, handlerVars>>
guardVars == <<g_tools_requiring_user, g_error_message, g_tool_name,
               g_function_args, g_args, g_state, g_ret, g_pc, g_tool_args>>
bookingVars == <<BOOKINGS, booking_counter, today, mr_call>>
orderVars == <<ORDERS_DB, INVENTORY, REVIEW_QUEUE, order_calls, order_call>>
expenseVars == <<EXPENSE_REPORTS, expense_counter, expense_calls, expense_call>>
domainVars == <<bookingVars, orderVars, expenseVars>>
vars == <<sessionVars, guardVars, turn, AGENT_REGISTRY, domainVars>>

\* what a step of the session manager or of a turn leaves alone
SessionFrame == UNCHANGED <<guardVars, turn, AGENT_REGISTRY, domainVars>>
\* what a step of a guard call leaves alone
GuardFrame == UNCHANGED <<sessionVars, turn, AGENT_REGISTRY, domainVars>>
\* what a step of run_agent or of event_generator leaves alone
TurnFrame == UNCHANGED <<sessionVars, guardVars, AGENT_REGISTRY, domainVars>>
\* what a tool call of the meeting_room agent leaves alone
BookingFrame ==
    UNCHANGED <<sessionVars, guardVars, turn, AGENT_REGISTRY, orderVars, expenseVars>>
\* what a tool call of the order agent leaves alone
OrderFrame ==
    UNCHANGED <<sessionVars, guardVars, turn, AGENT_REGISTRY, bookingVars, expenseVars>>
\* what a tool call of the expense agent leaves alone
ExpenseFrame ==
    UNCHANGED <<sessionVars, guardVars, turn, AGENT_REGISTRY, bookingVars, orderVars>>

(***************************************************************************)
(* api_server.py: the session manager.                                     *)
(***************************************************************************)
NoRequest == [agent_id |-> None, user_id |-> None, session_id |-> None]
NoInfo == UserInfo(None, None, None, None, None, None)
NoSession == [found |-> FALSE]
NoExec == [called |-> FALSE]

\* mutant: one namespace for every agent
AppNameShared(agent_id) == "agent"

\* app_name = f"agent_{agent_id}"
AppName(agent_id) == "agent_" \o agent_id

SessionKey(agent_id, user_id, session_id) == <<AppName(agent_id), user_id, session_id>>

\* `if session_id:` and `session_id or ...`
HasSessionId(session_id) == session_id \notin {None, ""}

\* str(uuid.uuid4()): a fresh id
Uuid4 == "uuid-" \o ToString(nextUuid + 1)

\* the requests that will still draw a uuid
PendingUuid ==
    Cardinality({q \in Handlers : pc[q] \in {"resolve", "create"}
                                  /\ ~HasSessionId(req[q].session_id)})

\* mutant: session.state replaced by user_state
ReplaceState(state, user_state) == user_state

\* mutant: state.setdefault(key, value), a key the state holds keeps its value
MergeKeepingCached(state, user_state) ==
    [k \in DOMAIN state \cup DOMAIN user_state |->
        IF k \in DOMAIN state THEN state[k] ELSE user_state[k]]

\* for key, value in user_state.items(): session.state[key] = value
MergeState(state, user_state) ==
    [k \in DOMAIN state \cup DOMAIN user_state |->
        IF k \in DOMAIN user_state THEN user_state[k] ELSE state[k]]

\* session_service.create_session(..., state=user_state) storing the session
StoreSession(store, key, state) ==
    [k \in DOMAIN store \cup {key} |-> IF k = key THEN state ELSE store[k]]

Count(key) == IF key \in DOMAIN created THEN created[key] ELSE 0

InitSession ==
    /\ sessions = <<>>
    /\ created = <<>>
    /\ nextUuid = 0
    /\ pc = [p \in Handlers |-> "idle"]
    /\ req = [p \in Handlers |-> NoRequest]
    /\ user_info = [p \in Handlers |-> NoInfo]
    /\ session = [p \in Handlers |-> NoSession]
    /\ result = [p \in Handlers |-> None]
    /\ error = [p \in Handlers |-> None]
    /\ served = 0
    /\ tool_exec = [p \in Handlers |-> NoExec]
    /\ resolver_calls = [p \in Handlers |-> 0]

\* a chat request for a registered agent reaches get_or_create_session
BeginRequest(p) ==
    /\ pc[p] = "idle"
    /\ served < MaxRequests
    /\ \E agent_id \in RequestAgents, user_id \in UserIds,
          session_id \in SessionIds \cup {None} :
            /\ HasKey(AGENT_REGISTRY, agent_id)
            /\ HasSessionId(session_id) \/ nextUuid + PendingUuid < MaxUuid
            /\ req' = [req EXCEPT ![p] = [agent_id |-> agent_id, user_id |-> user_id,
                                          session_id |-> session_id]]
    /\ pc' = [pc EXCEPT ![p] = "resolve"]
    /\ served' = served + 1
    /\ resolver_calls' = [resolver_calls EXCEPT ![p] = 0]
    /\ UNCHANGED <<storeVars, user_info, session, result, error, tool_exec>>
    /\ SessionFrame

\* user_info = await get_user_by_id_or_create_guest(user_id), the resolver answering
ResolveIdentity(p) ==
    /\ pc[p] = "resolve"
    /\ user_info' = [user_info EXCEPT ![p] = get_user_by_id_or_create_guest(req[p].user_id)]
    /\ pc' = [pc EXCEPT ![p] = IF HasSessionId(req[p].session_id) THEN "get" ELSE "create"]
    /\ resolver_calls' = [resolver_calls EXCEPT ![p] = @ + 1]
    /\ UNCHANGED <<storeVars, req, session, result, error, served, tool_exec>>
    /\ SessionFrame

\* the same await, the resolver raising or timing out: nothing catches it
ResolveRaises(p) ==
    /\ pc[p] = "resolve"
    /\ error' = [error EXCEPT ![p] = "IdentityUnavailable"]
    /\ pc' = [pc EXCEPT ![p] = "failed"]
    /\ resolver_calls' = [resolver_calls EXCEPT ![p] = @ + 1]
    /\ UNCHANGED <<storeVars, req, user_info, session, result, served, tool_exec>>
    /\ SessionFrame

\* session = await session_service.get_session(...), and the branch on it
GetSession(p) ==
    LET key == SessionKey(req[p].agent_id, req[p].user_id, req[p].session_id)
    IN  /\ pc[p] = "get"
        /\ IF key \in DOMAIN sessions
           THEN /\ session' = [session EXCEPT ![p] = [found |-> TRUE, state |-> sessions[key]]]
                /\ sessions' = [sessions EXCEPT ![key] =
                                   MergeState(@, get_user_state_dict(user_info[p]))]
                /\ result' = [result EXCEPT ![p] = req[p].session_id]
                /\ pc' = [pc EXCEPT ![p] = "running"]
           ELSE /\ session' = [session EXCEPT ![p] = NoSession]
                /\ pc' = [pc EXCEPT ![p] = "create"]
                /\ UNCHANGED <<sessions, result>>
        /\ UNCHANGED <<created, nextUuid, req, user_info, error, served, tool_exec,
                       resolver_calls>>
        /\ SessionFrame

\* await session_service.create_session(...) under a key that holds no session
CreateSession(p) ==
    LET new_session_id == IF HasSessionId(req[p].session_id)
                          THEN req[p].session_id ELSE Uuid4
        key == SessionKey(req[p].agent_id, req[p].user_id, new_session_id)
    IN  /\ pc[p] = "create"
        /\ key \notin DOMAIN sessions
        /\ sessions' = StoreSession(sessions, key, get_user_state_dict(user_info[p]))
        /\ created' = StoreSession(created, key, 1)
        /\ nextUuid' = IF HasSessionId(req[p].session_id) THEN nextUuid ELSE nextUuid + 1
        /\ result' = [result EXCEPT ![p] = new_session_id]
        /\ pc' = [pc EXCEPT ![p] = "running"]
        /\ UNCHANGED <<req, user_info, session, error, served, tool_exec, resolver_calls>>
        /\ SessionFrame

\* the same call under a key another handler has filled since get_session:
\* a session service that stores the new session over the old one
CreateSessionOverwrites(p) ==
    LET key == SessionKey(req[p].agent_id, req[p].user_id, req[p].session_id)
    IN  /\ pc[p] = "create"
        /\ HasSessionId(req[p].session_id)
        /\ key \in DOMAIN sessions
        /\ sessions' = StoreSession(sessions, key, get_user_state_dict(user_info[p]))
        /\ created' = StoreSession(created, key, Count(key) + 1)
        /\ result' = [result EXCEPT ![p] = req[p].session_id]
        /\ pc' = [pc EXCEPT ![p] = "running"]
        /\ UNCHANGED <<nextUuid, req, user_info, session, error, served, tool_exec,
                       resolver_calls>>
        /\ SessionFrame

\* the same call, a session service that refuses an id already in use
CreateSessionRaises(p) ==
    LET key == SessionKey(req[p].agent_id, req[p].user_id, req[p].session_id)
    IN  /\ pc[p] = "create"
        /\ HasSessionId(req[p].session_id)
        /\ key \in DOMAIN sessions
        /\ error' = [error EXCEPT ![p] = "AlreadyExistsError"]
        /\ pc' = [pc EXCEPT ![p] = "failed"]
        /\ UNCHANGED <<storeVars, req, user_info, session, result, served, tool_exec,
                       resolver_calls>>
        /\ SessionFrame

(***************************************************************************)
(* A turn: runner.run_async on the resolved session.  The runner calls the *)
(* agent's before_tool_callback, when it has one, before each tool         *)
(* function, and skips the function when the callback returns a dict.      *)
(***************************************************************************)
\* the args the model supplies to a tool call: with or without a user_id
CallerArgs ==
    {[topic |-> "t"]} \cup {[topic |-> "t", user_id |-> u] : u \in CallerUserIds}

TurnKey(p) == SessionKey(req[p].agent_id, req[p].user_id, result[p])

\* a tool call of an agent constructed with before_tool_callback
GuardedToolCall(p) ==
    LET agent == Item(AGENT_REGISTRY, req[p].agent_id)
        callback == agent.before_tool_callback
    IN  /\ pc[p] = "running"
        /\ callback.present
        /\ \E tool_name \in agent.tools \cap ToolNames, args \in CallerArgs :
              LET r == validate_user_before_tool(callback.tools_requiring_user,
                                                 callback.error_message, tool_name,
                                                 args, sessions[TurnKey(p)])
              IN  /\ tool_exec' = [tool_exec EXCEPT ![p] =
                         [called |-> TRUE, tool_name |-> tool_name,
                          guard_invoked |-> TRUE, executed |-> r.ret = NoneRet,
                          args |-> r.args]]
                  /\ sessions' = [sessions EXCEPT ![TurnKey(p)] = r.state]
        /\ UNCHANGED <<created, nextUuid, pc, req, user_info, session, result, error,
                       served, resolver_calls>>
        /\ SessionFrame

\* a tool call of an agent constructed without before_tool_callback
UnguardedToolCall(p) ==
    LET agent == Item(AGENT_REGISTRY, req[p].agent_id)
    IN  /\ pc[p] = "running"
        /\ ~agent.before_tool_callback.present
        /\ \E tool_name \in agent.tools \cap ToolNames, args \in CallerArgs :
              tool_exec' = [tool_exec EXCEPT ![p] =
                  [called |-> TRUE, tool_name |-> tool_name,
                   guard_invoked |-> FALSE, executed |-> TRUE, args |-> args]]
        /\ UNCHANGED <<storeVars, pc, req, user_info, session, result, error, served,
                       resolver_calls>>
        /\ SessionFrame

\* a tool of the turn writes a key of its own into the session state
ToolWritesState(p) ==
    /\ pc[p] = "running"
    /\ \E v \in ToolValues :
          sessions' = [sessions EXCEPT ![TurnKey(p)] =
                          [k \in DOMAIN @ \cup {"tool_key"} |->
                              IF k = "tool_key" THEN v ELSE @[k]]]
    /\ UNCHANGED <<created, nextUuid, handlerVars>>
    /\ SessionFrame

\* a tool of the turn writes over an identity attribute of the session state
ToolWritesIdentityKey(p) ==
    /\ pc[p] = "running"
    /\ \E v \in ToolValues :
          sessions' = [sessions EXCEPT ![TurnKey(p)] =
                          [k \in DOMAIN @ \cup {"user_name"} |->
                              IF k = "user_name" THEN v ELSE @[k]]]
    /\ UNCHANGED <<created, nextUuid, handlerVars>>
    /\ SessionFrame

\* the request ends: the response of a finished turn, or the error of a failed call
EndRequest(p) ==
    /\ pc[p] \in {"running", "failed"}
    /\ pc' = [pc EXCEPT ![p] = "idle"]
    /\ req' = [req EXCEPT ![p] = NoRequest]
    /\ user_info' = [user_info EXCEPT ![p] = NoInfo]
    /\ session' = [session EXCEPT ![p] = NoSession]
    /\ result' = [result EXCEPT ![p] = None]
    /\ error' = [error EXCEPT ![p] = None]
    /\ tool_exec' = [tool_exec EXCEPT ![p] = NoExec]
    /\ resolver_calls' = [resolver_calls EXCEPT ![p] = 0]
    /\ UNCHANGED <<storeVars, served>>
    /\ SessionFrame

(***************************************************************************)
(* One call of the guard, on inputs drawn from bounded sets.               *)
(***************************************************************************)
GuardToolNames == {"book_room", "list_buildings"}
GuardConfigs == {ToolsNone} \cup {ToolList(names) : names \in SUBSET GuardToolNames}
GuardMessages == {None, "", "custom message"}

\* tool_context.state: is_registered absent, False or True; user_id absent or set;
\* with or without a key written by a tool
GuardStates ==
    {<<>>, [user_id |-> "EMP001"],
     [is_registered |-> FALSE], [is_registered |-> FALSE, user_id |-> "EMP001"],
     [is_registered |-> TRUE], [is_registered |-> TRUE, user_id |-> "EMP001"],
     [is_registered |-> TRUE, user_id |-> "EMP001", tool_key |-> "v1"]}

\* the guard at rest, in the specification of the session manager
GuardIdle ==
    /\ g_tools_requiring_user = ToolsNone
    /\ g_error_message = None
    /\ g_tool_name = "book_room"
    /\ g_function_args = [topic |-> "t"]
    /\ g_args = g_function_args
    /\ g_state = <<>>
    /\ g_ret = NoneRet
    /\ g_pc = "ready"
    /\ g_tool_args = <<>>

InitGuard ==
    /\ g_tools_requiring_user \in GuardConfigs
    /\ g_error_message \in GuardMessages
    /\ g_tool_name \in GuardToolNames
    /\ g_function_args \in CallerArgs
    /\ g_args = g_function_args
    /\ g_state \in GuardStates
    /\ g_ret = NoneRet
    /\ g_pc = "ready"
    /\ g_tool_args = <<>>

\* the runner calls callback(tool=tool, args=function_args, tool_context=tool_context)
GuardCall ==
    LET r == validate_user_before_tool(g_tools_requiring_user, g_error_message,
                                       g_tool_name, g_args, g_state)
    IN  /\ g_pc = "ready"
        /\ g_ret' = r.ret
        /\ g_args' = r.args
        /\ g_state' = r.state
        /\ g_pc' = "checked"
        /\ UNCHANGED <<g_tools_requiring_user, g_error_message, g_tool_name,
                       g_function_args, g_tool_args>>
        /\ GuardFrame

\* the callback returned None: the tool function runs with args
ToolExecutes ==
    /\ g_pc = "checked"
    /\ g_ret = NoneRet
    /\ g_tool_args' = g_args
    /\ g_pc' = "executed"
    /\ UNCHANGED <<g_tools_requiring_user, g_error_message, g_tool_name,
                   g_function_args, g_args, g_state, g_ret>>
    /\ GuardFrame

\* the callback returned a dict: it is the tool's result, the function is skipped
ToolSkipped ==
    /\ g_pc = "checked"
    /\ g_ret # NoneRet
    /\ g_pc' = "blocked"
    /\ UNCHANGED <<g_tools_requiring_user, g_error_message, g_tool_name,
                   g_function_args, g_args, g_state, g_ret, g_tool_args>>
    /\ GuardFrame

(***************************************************************************)
(* api_server.py: the chat endpoints.  chat_with_agent resolves the        *)
(* session and aggregates the turn with run_agent; chat_stream_with_agent  *)
(* streams it from event_generator.  The runner yields raw events one at a *)
(* time, ends the sequence, or raises.                                     *)
(***************************************************************************)
\* the agent ids a request may name: the registered ones and one that is not
ChatAgents == RequestAgents \cup {"no_such_agent"}

\* the user ids of a chat request: those of the session manager and a
\* lower-case spelling of a directory id
ChatUserIds == UserIds \cup {"emp001"}

HTTPException(status_code, detail) ==
    [type |-> "HTTPException", status_code |-> status_code, detail |-> detail]
Exception(msg) == [type |-> "Exception", msg |-> msg]

\* mutant: no membership test, every id taken for a registered agent
get_agent_unchecked(agent_id) == [raised |-> FALSE]

\* get_agent: the exception it raises, or none
get_agent(agent_id) ==
    IF ~HasKey(AGENT_REGISTRY, agent_id)
    THEN [raised |-> TRUE, exc |-> HTTPException(404, "agent not found: " \o agent_id)]
    ELSE [raised |-> FALSE]

\* the HTTP answers: none yet, an error, the ChatResponse
NoResponse == [status |-> 0]
ErrorResponse(e) == [status |-> e.status_code, detail |-> e.detail]
ChatResponse(agent_id, response, session_id, user_id, user_name) ==
    [status |-> 200, agent_id |-> agent_id, response |-> response,
     session_id |-> session_id, user_id |-> user_id, user_name |-> user_name]

\* mutant: `except Exception` placed first, every error answered as a 500
chat_except_all(e) ==
    HTTPException(500, IF e.type = "HTTPException" THEN e.detail ELSE e.msg)

\* chat_with_agent's except clauses: an HTTPException is re-raised, any other
\* exception becomes HTTPException(500, detail=str(e))
chat_except(e) ==
    IF e.type = "HTTPException" THEN e ELSE HTTPException(500, e.msg)

\* the frames of event_generator
\* a frame is the string the generator yields (data), tagged with the yield
\* statement that produced it (kind): line 782, 784 or 787.  The consumer
\* receives the strings only.
Frame(text) == [kind |-> "text", data |-> "data: " \o text \o "\n\n"]
DONE == [kind |-> "done", data |-> "data: [DONE]\n\n"]
ErrorFrame(msg) == [kind |-> "error", data |-> "data: Error: " \o msg \o "\n\n"]

\* the body of the StreamingResponse: what goes over the wire
Wire(frames) == [i \in 1..Len(frames) |-> frames[i].data]

\* mutant: `except BaseException`
IsBaseException(exc_type) == TRUE

\* `except Exception`: what the clause of line 786 catches
IsException(exc_type) ==
    exc_type \notin {"GeneratorExit", "CancelledError", "KeyboardInterrupt", "SystemExit"}

\* mutant: the error frame followed by the sentinel (a `finally: yield [DONE]`)
on_stream_exception_then_done(frames, msg) ==
    Append(Append(frames, ErrorFrame(msg)), DONE)

\* line 787: yield f"data: Error: {str(e)}\n\n"
on_stream_exception(frames, msg) == Append(frames, ErrorFrame(msg))

\* endpoint is the handler function serving the request and route its path;
\* runs counts the runner.run_async calls of the request
TurnIdle ==
    [endpoint |-> "none", route |-> "none", pc |-> "idle", runs |-> 0,
     events |-> <<>>, extracted |-> <<>>,
     response_parts |-> <<>>, raised |-> None, response |-> NoResponse,
     frames |-> <<>>, pending |-> <<>>, pending_exc |-> None, disconnected |-> FALSE]

InitTurn == turn = [p \in Handlers |-> TurnIdle]

\* lifespan has run: AGENT_REGISTRY = load_agents()
InitRegistry == AGENT_REGISTRY = load_agents

\* chat_with_agent called for a request: get_agent inside the try, then the
\* call of get_or_create_session
chat_with_agent(p, route) ==
    /\ pc[p] = "idle"
    /\ turn[p].pc = "idle"
    /\ served < MaxRequests
    /\ \E agent_id \in ChatAgents, user_id \in ChatUserIds,
          session_id \in SessionIds \cup {None} :
            /\ HasSessionId(session_id) \/ nextUuid + PendingUuid < MaxUuid
            /\ req' = [req EXCEPT ![p] = [agent_id |-> agent_id, user_id |-> user_id,
                                          session_id |-> session_id]]
            /\ LET r == get_agent(agent_id)
               IN  IF r.raised
                   THEN /\ pc' = pc
                        /\ turn' = [turn EXCEPT ![p] =
                               [TurnIdle EXCEPT !.endpoint = "chat", !.route = route,
                                                !.pc = "responded",
                                                !.raised = r.exc.detail,
                                                !.response = ErrorResponse(chat_except(r.exc))]]
                   ELSE /\ pc' = [pc EXCEPT ![p] = "resolve"]
                        /\ turn' = [turn EXCEPT ![p] =
                               [TurnIdle EXCEPT !.endpoint = "chat", !.route = route,
                                                !.pc = "session"]]
    /\ served' = served + 1
    /\ resolver_calls' = [resolver_calls EXCEPT ![p] = 0]
    /\ UNCHANGED <<storeVars, user_info, session, result, error, tool_exec>>
    /\ UNCHANGED <<guardVars, AGENT_REGISTRY, domainVars>>

\* POST /agents/{agent_id}/chat
ChatRequest(p) == chat_with_agent(p, "/agents/{agent_id}/chat")

\* POST /chat?agent_id=: return await chat_with_agent(request, agent_id)
quick_chat(p) == chat_with_agent(p, "/chat")

\* get_or_create_session raised: chat_with_agent's `except Exception`
ChatSessionRaised(p) ==
    /\ turn[p].endpoint = "chat"
    /\ turn[p].pc = "session"
    /\ pc[p] = "failed"
    /\ turn' = [turn EXCEPT ![p].raised = error[p],
                            ![p].response = ErrorResponse(chat_except(Exception(error[p]))),
                            ![p].pc = "responded"]
    /\ TurnFrame

\* get_or_create_session returned: run_agent starts the runner, response_parts = []
RunAgent(p) ==
    /\ turn[p].endpoint = "chat"
    /\ turn[p].pc = "session"
    /\ pc[p] = "running"
    /\ turn' = [turn EXCEPT ![p].response_parts = <<>>, ![p].runs = @ + 1,
                            ![p].pc = "pump"]
    /\ TurnFrame

\* the runner yields an event and the loop body runs on it; an exception of
\* the body leaves run_agent through `except Exception: raise` and becomes the
\* 500 of chat_with_agent
RunNextEvent(p) ==
    /\ turn[p].endpoint = "chat"
    /\ turn[p].pc = "pump"
    /\ Len(turn[p].events) < MaxEvents
    /\ \E event \in RawEvents :
          LET n == run_agent_event(event)
              t == [turn[p] EXCEPT !.events = Append(@, event), !.extracted = n.sub,
                                   !.response_parts = @ \o Texts(n.sub)]
          IN  turn' = [turn EXCEPT ![p] =
                  IF n.exc = None THEN t
                  ELSE [t EXCEPT !.raised = n.exc,
                                 !.response = ErrorResponse(chat_except(Exception(n.exc))),
                                 !.pc = "responded"]]
    /\ TurnFrame

\* mutant: the turn is run again after a failure of the runner
RunPumpRaisesAndRetries(p) ==
    /\ turn[p].endpoint = "chat"
    /\ turn[p].pc = "pump"
    /\ turn' = [turn EXCEPT ![p].raised = RunnerError,
                            ![p].pc = IF turn[p].runs < 2 THEN "session" ELSE "responded",
                            ![p].response =
                                IF turn[p].runs < 2 THEN NoResponse
                                ELSE ErrorResponse(chat_except(Exception(RunnerError)))]
    /\ TurnFrame

\* the runner raises instead of yielding
RunPumpRaises(p) ==
    /\ turn[p].endpoint = "chat"
    /\ turn[p].pc = "pump"
    /\ turn' = [turn EXCEPT ![p].raised = RunnerError,
                            ![p].response = ErrorResponse(chat_except(Exception(RunnerError))),
                            ![p].pc = "responded"]
    /\ TurnFrame

\* the sequence ends: run_agent returns final_response, chat_with_agent the ChatResponse
RunPumpEnds(p) ==
    /\ turn[p].endpoint = "chat"
    /\ turn[p].pc = "pump"
    /\ turn' = [turn EXCEPT ![p].response =
                                ChatResponse(req[p].agent_id,
                                             final_response(turn[p].response_parts),
                                             result[p], req[p].user_id,
                                             user_info[p].user_name),
                            ![p].pc = "responded"]
    /\ TurnFrame

\* POST /agents/{agent_id}/chat/stream: get_agent before the generator exists
StreamRequest(p) ==
    /\ pc[p] = "idle"
    /\ turn[p].pc = "idle"
    /\ served < MaxRequests
    /\ \E agent_id \in ChatAgents, user_id \in UserIds,
          session_id \in SessionIds \cup {None} :
            /\ HasSessionId(session_id) \/ nextUuid + PendingUuid < MaxUuid
            /\ req' = [req EXCEPT ![p] = [agent_id |-> agent_id, user_id |-> user_id,
                                          session_id |-> session_id]]
            /\ LET r == get_agent(agent_id)
               IN  IF r.raised
                   THEN /\ pc' = pc
                        /\ turn' = [turn EXCEPT ![p] =
                               [TurnIdle EXCEPT !.endpoint = "stream",
                                                !.route = "/agents/{agent_id}/chat/stream",
                                                !.pc = "responded",
                                                !.raised = r.exc.detail,
                                                !.response = ErrorResponse(r.exc)]]
                   ELSE /\ pc' = [pc EXCEPT ![p] = "resolve"]
                        /\ turn' = [turn EXCEPT ![p] =
                               [TurnIdle EXCEPT !.endpoint = "stream",
                                                !.route = "/agents/{agent_id}/chat/stream",
                                                !.pc = "session"]]
    /\ served' = served + 1
    /\ resolver_calls' = [resolver_calls EXCEPT ![p] = 0]
    /\ UNCHANGED <<storeVars, user_info, session, result, error, tool_exec>>
    /\ UNCHANGED <<guardVars, AGENT_REGISTRY, domainVars>>

\* mutant: the next event is awaited after the first text of an event
stream_continue_prefetching(t) ==
    IF Len(t.pending) # 0
    THEN [t EXCEPT !.frames = Append(@, Frame(Head(t.pending))),
                   !.pending = Tail(@), !.pc = "pump"]
    ELSE IF t.pending_exc # None
         THEN [t EXCEPT !.frames = on_stream_exception(@, t.pending_exc),
                        !.raised = t.pending_exc, !.pending_exc = None,
                        !.pc = "error_frame"]
         ELSE [t EXCEPT !.pc = "pump"]

\* the generator runs on to its next yield: the next text of the event, the
\* error frame of an exception, or back to the await of the next event
stream_continue(t) ==
    IF Len(t.pending) # 0
    THEN [t EXCEPT !.frames = Append(@, Frame(Head(t.pending))),
                   !.pending = Tail(@), !.pc = "text_frame"]
    ELSE IF t.pending_exc # None
         THEN [t EXCEPT !.frames = on_stream_exception(@, t.pending_exc),
                        !.raised = t.pending_exc, !.pending_exc = None,
                        !.pc = "error_frame"]
         ELSE [t EXCEPT !.pc = "pump"]

\* get_or_create_session raised inside event_generator
StreamSessionRaised(p) ==
    /\ turn[p].endpoint = "stream"
    /\ turn[p].pc = "session"
    /\ pc[p] = "failed"
    /\ turn' = [turn EXCEPT ![p] = stream_continue([@ EXCEPT !.pending_exc = error[p]])]
    /\ TurnFrame

\* get_or_create_session returned: the generator starts the runner
StreamStart(p) ==
    /\ turn[p].endpoint = "stream"
    /\ turn[p].pc = "session"
    /\ pc[p] = "running"
    /\ turn' = [turn EXCEPT ![p].runs = @ + 1, ![p].pc = "pump"]
    /\ TurnFrame

\* the runner yields an event: the generator yields its first text, if any
StreamNextEvent(p) ==
    /\ turn[p].endpoint = "stream"
    /\ turn[p].pc = "pump"
    /\ Len(turn[p].events) < MaxEvents
    /\ \E event \in RawEvents :
          LET r == stream_text_block(event)
          IN  turn' = [turn EXCEPT ![p] =
                  stream_continue([@ EXCEPT !.events = Append(@, event),
                                            !.pending = Texts(r.sub),
                                            !.pending_exc = r.exc])]
    /\ TurnFrame

\* the consumer asks for the next frame: the generator resumes after a text
StreamResume(p) ==
    /\ turn[p].endpoint = "stream"
    /\ turn[p].pc = "text_frame"
    /\ turn' = [turn EXCEPT ![p] = stream_continue(@)]
    /\ TurnFrame

\* the runner raises instead of yielding
StreamPumpRaises(p) ==
    /\ turn[p].endpoint = "stream"
    /\ turn[p].pc = "pump"
    /\ turn' = [turn EXCEPT ![p] = stream_continue([@ EXCEPT !.pending_exc = RunnerError])]
    /\ TurnFrame

\* the sequence ends: yield "data: [DONE]\n\n"
StreamPumpEnds(p) ==
    /\ turn[p].endpoint = "stream"
    /\ turn[p].pc = "pump"
    /\ turn' = [turn EXCEPT ![p].frames = Append(@, DONE), ![p].pc = "done_frame"]
    /\ TurnFrame

\* resumed after its last frame, the generator returns
StreamFinish(p) ==
    /\ turn[p].endpoint = "stream"
    /\ turn[p].pc \in {"done_frame", "error_frame"}
    /\ turn' = [turn EXCEPT ![p].pc = "finished"]
    /\ TurnFrame

\* the client disconnects while the generator is suspended at a frame: the
\* generator is closed, GeneratorExit is raised at its yield
ClientDisconnects(p) ==
    /\ turn[p].endpoint = "stream"
    /\ turn[p].pc \in {"text_frame", "done_frame", "error_frame"}
    /\ turn' = [turn EXCEPT ![p] =
           IF turn[p].pc # "error_frame" /\ IsException("GeneratorExit")
           THEN [@ EXCEPT !.frames = on_stream_exception(@, "GeneratorExit"),
                          !.disconnected = TRUE, !.pc = "error_frame"]
           ELSE [@ EXCEPT !.disconnected = TRUE, !.pc = "closed"]]
    /\ TurnFrame

(***************************************************************************)
(* api_server.py: the session endpoint and the agent endpoints.  An        *)
(* exception that leaves an endpoint function and is no HTTPException is   *)
(* answered by the framework with 500 Internal Server Error.               *)
(***************************************************************************)
InternalServerError == [status |-> 500, detail |-> "Internal Server Error"]

PyTuple(items) == [t |-> "tuple", items |-> items]

ValidationError == "1 validation error for SessionInfo: session_id"

\* the response model SessionInfo: session_id is declared str, and the
\* validation of a str field refuses a tuple
SessionInfo(agent_id, session_id, user_id) ==
    IF session_id.t = "str"
    THEN [raised |-> FALSE,
          value |-> [status |-> 200, agent_id |-> agent_id,
                     session_id |-> session_id.s, user_id |-> user_id]]
    ELSE [raised |-> TRUE, exc |-> ValidationError]

AgentInfo(agent_id, name, description) ==
    [agent_id |-> agent_id, name |-> name, description |-> description]

\* POST /agents/{agent_id}/sessions: get_agent, then the call of
\* get_or_create_session(agent_id, user_id) without a session_id
create_session(p) ==
    /\ pc[p] = "idle"
    /\ turn[p].pc = "idle"
    /\ served < MaxRequests
    /\ nextUuid + PendingUuid < MaxUuid
    /\ \E agent_id \in ChatAgents, user_id \in ChatUserIds :
            /\ req' = [req EXCEPT ![p] = [agent_id |-> agent_id, user_id |-> user_id,
                                          session_id |-> None]]
            /\ LET r == get_agent(agent_id)
               IN  IF r.raised
                   THEN /\ pc' = pc
                        /\ turn' = [turn EXCEPT ![p] =
                               [TurnIdle EXCEPT !.endpoint = "sessions",
                                                !.route = "/agents/{agent_id}/sessions",
                                                !.pc = "responded",
                                                !.raised = r.exc.detail,
                                                !.response = ErrorResponse(r.exc)]]
                   ELSE /\ pc' = [pc EXCEPT ![p] = "resolve"]
                        /\ turn' = [turn EXCEPT ![p] =
                               [TurnIdle EXCEPT !.endpoint = "sessions",
                                                !.route = "/agents/{agent_id}/sessions",
                                                !.pc = "session"]]
    /\ served' = served + 1
    /\ resolver_calls' = [resolver_calls EXCEPT ![p] = 0]
    /\ UNCHANGED <<storeVars, user_info, session, result, error, tool_exec>>
    /\ UNCHANGED <<guardVars, AGENT_REGISTRY, domainVars>>

\* get_or_create_session raised: nothing in create_session catches it
CreateSessionEndpointRaised(p) ==
    /\ turn[p].endpoint = "sessions"
    /\ turn[p].pc = "session"
    /\ pc[p] = "failed"
    /\ turn' = [turn EXCEPT ![p].raised = error[p],
                            ![p].response = InternalServerError,
                            ![p].pc = "responded"]
    /\ TurnFrame

\* get_or_create_session returned: session_id = <the (session_id, user_info)
\* tuple>, and return SessionInfo(agent_id=..., session_id=session_id, user_id=...)
CreateSessionEndpointReturns(p) ==
    /\ turn[p].endpoint = "sessions"
    /\ turn[p].pc = "session"
    /\ pc[p] = "running"
    /\ LET session_id == PyTuple(<<PyStr(result[p]), PyObj(user_info[p])>>)
           r == SessionInfo(req[p].agent_id, session_id, req[p].user_id)
       IN  turn' = [turn EXCEPT ![p] =
               IF r.raised
               THEN [@ EXCEPT !.raised = r.exc, !.response = InternalServerError,
                              !.pc = "responded"]
               ELSE [@ EXCEPT !.response = r.value, !.pc = "responded"]]
    /\ TurnFrame

\* GET /agents: the AgentInfo of every item of AGENT_REGISTRY, in dict order
list_agents(p) ==
    /\ pc[p] = "idle"
    /\ turn[p].pc = "idle"
    /\ served < MaxRequests
    /\ turn' = [turn EXCEPT ![p] =
           [TurnIdle EXCEPT !.endpoint = "list_agents", !.route = "/agents",
                            !.pc = "responded",
                            !.response =
                                [status |-> 200,
                                 body |-> [i \in 1..Len(AGENT_REGISTRY) |->
                                              AgentInfo(AGENT_REGISTRY[i].key,
                                                        AGENT_REGISTRY[i].value.name,
                                                        AGENT_REGISTRY[i].value.description)]]]]
    /\ served' = served + 1
    /\ UNCHANGED <<storeVars, pc, req, user_info, session, result, error, tool_exec,
                   resolver_calls>>
    /\ UNCHANGED <<guardVars, AGENT_REGISTRY, domainVars>>

\* mutant: AGENT_REGISTRY.pop(agent_id) in place of AGENT_REGISTRY[agent_id]
get_agent_info_popping(p) ==
    /\ pc[p] = "idle"
    /\ turn[p].pc = "idle"
    /\ served < MaxRequests
    /\ \E agent_id \in ChatAgents :
          /\ req' = [req EXCEPT ![p] = [agent_id |-> agent_id, user_id |-> None,
                                        session_id |-> None]]
          /\ turn' = [turn EXCEPT ![p] =
                 [TurnIdle EXCEPT
                     !.endpoint = "get_agent_info", !.route = "/agents/{agent_id}",
                     !.pc = "responded",
                     !.response =
                         IF ~HasKey(AGENT_REGISTRY, agent_id)
                         THEN ErrorResponse(HTTPException(404, "no agent '" \o agent_id \o "'"))
                         ELSE LET info == Item(AGENT_REGISTRY, agent_id)
                              IN  [status |-> 200,
                                   body |-> AgentInfo(agent_id, info.name,
                                                      info.description)]]]
          /\ AGENT_REGISTRY' = SelectSeq(AGENT_REGISTRY, LAMBDA e : e.key # agent_id)
    /\ served' = served + 1
    /\ UNCHANGED <<storeVars, pc, user_info, session, result, error, tool_exec,
                   resolver_calls>>
    /\ UNCHANGED <<guardVars, domainVars>>

\* GET /agents/{agent_id}: 404 for an id that is not a key, else its AgentInfo
get_agent_info(p) ==
    /\ pc[p] = "idle"
    /\ turn[p].pc = "idle"
    /\ served < MaxRequests
    /\ \E agent_id \in ChatAgents :
          /\ req' = [req EXCEPT ![p] = [agent_id |-> agent_id, user_id |-> None,
                                        session_id |-> None]]
          /\ turn' = [turn EXCEPT ![p] =
                 [TurnIdle EXCEPT
                     !.endpoint = "get_agent_info", !.route = "/agents/{agent_id}",
                     !.pc = "responded",
                     !.response =
                         IF ~HasKey(AGENT_REGISTRY, agent_id)
                         THEN ErrorResponse(HTTPException(404, "no agent '" \o agent_id \o "'"))
                         ELSE LET info == Item(AGENT_REGISTRY, agent_id)
                              IN  [status |-> 200,
                                   body |-> AgentInfo(agent_id, info.name,
                                                      info.description)]]]
    /\ served' = served + 1
    /\ UNCHANGED <<storeVars, pc, user_info, session, result, error, tool_exec,
                   resolver_calls>>
    /\ UNCHANGED <<guardVars, AGENT_REGISTRY, domainVars>>

(***************************************************************************)
(* meeting_room_agent/tools.py: book_room and cancel_booking, called by    *)
(* the runner behind the agent's before_tool_callback.                     *)
(***************************************************************************)
MEETING_ROOMS ==
    [id \in {"A-101", "A-102", "A-201", "B-101", "B-102", "C-101", "C-201"} |->
        CASE id = "A-101" -> [id |-> id, building |-> "A", name |-> "Large Room", capacity |-> 20]
          [] id = "A-102" -> [id |-> id, building |-> "A", name |-> "Small Room A", capacity |-> 8]
          [] id = "A-201" -> [id |-> id, building |-> "A", name |-> "Board Room", capacity |-> 30]
          [] id = "B-101" -> [id |-> id, building |-> "B", name |-> "R&D Room", capacity |-> 10]
          [] id = "B-102" -> [id |-> id, building |-> "B", name |-> "Tech Briefing", capacity |-> 15]
          [] id = "C-101" -> [id |-> id, building |-> "C", name |-> "Hall", capacity |-> 50]
          [] id = "C-201" -> [id |-> id, building |-> "C", name |-> "VIP Room", capacity |-> 12]]

valid_slots ==
    {"09:00-10:00", "10:00-11:00", "11:00-12:00", "13:00-14:00", "14:00-15:00",
     "15:00-16:00", "16:00-17:00", "17:00-18:00"}

\* the calendar days of the model, numbered from 0
ValueError == [ok |-> FALSE]
Date(day) == [ok |-> TRUE, day |-> day]

\* datetime.strptime(date, "%Y-%m-%d").date(): %m and %d take one or two digits
strptime(date) ==
    CASE date = "2026-11-30" -> Date(0)
      [] date \in {"2026-12-01", "2026-12-1"} -> Date(1)
      [] date \in {"2026-12-02", "2026-12-2"} -> Date(2)
      [] date \in {"2026-12-03", "2026-12-3"} -> Date(3)
      [] OTHER -> ValueError

\* datetime.now().strftime('%Y%m%d')
strftime(day) ==
    CASE day = 0 -> "20261130"
      [] day = 1 -> "20261201"
      [] day = 2 -> "20261202"
      [] OTHER -> "20261203"

\* f"{n:04d}" for the counters the model reaches
Pad4(n) == "000" \o ToString(n)

\* _generate_booking_id, after the counter was incremented
generate_booking_id(counter, now) == "BK" \o strftime(now) \o Pad4(counter)

ToolError(code) == [status |-> "error", error_message |-> code]

\* attendees: Optional[int], None as the empty tuple and n as <<n>>
NoAttendees == <<>>

\* booking["status"] = "cancelled"; booking["cancelled_at"] = now
Cancelled(booking, now) ==
    [k \in DOMAIN booking \cup {"cancelled_at"} |->
        CASE k = "status" -> "cancelled"
          [] k = "cancelled_at" -> now
          [] OTHER -> booking[k]]

\* the loop of lines 229-237: a confirmed booking of the same room_id, date
\* string and time_slot
slot_taken(B, room_id, date, time_slot) ==
    \E id \in DOMAIN B :
        /\ B[id].room_id = room_id
        /\ B[id].date = date
        /\ B[id].time_slot = time_slot
        /\ B[id].status = "confirmed"

\* book_room on the tables B (BOOKINGS) and counter, on day now: the dict it
\* returns and the tables as it leaves them
book_room(room_id, user_id, date, time_slot, title, attendees, B, counter, now) ==
    LET unchanged(code) == [result |-> ToolError(code), BOOKINGS |-> B,
                            counter |-> counter]
        id == Upper(room_id)
        booking_date == strptime(date)
    IN  IF id \notin DOMAIN MEETING_ROOMS THEN unchanged("room_not_found")
        ELSE IF ~booking_date.ok THEN unchanged("bad_date_format")
        ELSE IF booking_date.day < now THEN unchanged("past_date")
        ELSE IF time_slot \notin valid_slots THEN unchanged("invalid_slot")
        ELSE IF slot_taken(B, id, date, time_slot) THEN unchanged("already_booked")
        ELSE IF attendees # NoAttendees /\ attendees[1] # 0
                /\ attendees[1] > MEETING_ROOMS[id].capacity
             THEN unchanged("over_capacity")
        ELSE LET booking_id == generate_booking_id(counter + 1, now)
                 booking == [booking_id |-> booking_id,
                             room_id |-> id,
                             room_name |-> MEETING_ROOMS[id].name,
                             building |-> MEETING_ROOMS[id].building,
                             user_id |-> user_id,
                             date |-> date,
                             time_slot |-> time_slot,
                             title |-> title,
                             attendees |-> IF attendees = NoAttendees
                                           THEN 0 ELSE attendees[1],
                             status |-> "confirmed",
                             created_at |-> now]
             IN  [result |-> [status |-> "success", booking |-> booking],
                  BOOKINGS |-> [k \in DOMAIN B \cup {booking_id} |->
                                   IF k = booking_id THEN booking ELSE B[k]],
                  counter |-> counter + 1]

\* mutant: cancel_booking without the check of the booking's owner
cancel_booking_by_anyone(booking_id, user_id, B, now) ==
    LET unchanged(code) == [result |-> ToolError(code), BOOKINGS |-> B]
        id == Upper(booking_id)
    IN  IF id \notin DOMAIN B THEN unchanged("booking_not_found")
        ELSE IF B[id].status = "cancelled" THEN unchanged("already_cancelled")
        ELSE IF strptime(B[id].date).day < now THEN unchanged("past_booking")
        ELSE [result |-> [status |-> "success", booking_id |-> id],
              BOOKINGS |-> [B EXCEPT ![id] = Cancelled(B[id], now)]]

\* cancel_booking on the table B, on day now
cancel_booking(booking_id, user_id, B, now) ==
    LET unchanged(code) == [result |-> ToolError(code), BOOKINGS |-> B]
        id == Upper(booking_id)
    IN  IF id \notin DOMAIN B THEN unchanged("booking_not_found")
        ELSE IF B[id].status = "cancelled" THEN unchanged("already_cancelled")
        ELSE IF B[id].user_id # user_id THEN unchanged("not_owner")
        ELSE IF strptime(B[id].date).day < now THEN unchanged("past_booking")
        ELSE [result |-> [status |-> "success", booking_id |-> id],
              BOOKINGS |-> [B EXCEPT ![id] = Cancelled(B[id], now)]]

\* the session states of the turns that call the tools: the state of a session
\* the server created for a request user, and a session without identity
MeetingUserIds == {"EMP001", "emp002"}
MeetingStates ==
    {get_user_state_dict(get_user_by_id_or_create_guest(u)) : u \in MeetingUserIds}
        \cup {<<>>}

\* what the model passes to the tools
SuppliedUserIds == {None, "EMP001"}

\* args as the model supplies them: with or without a user_id of its choice
WithUserId(args, user_id) ==
    IF user_id = None THEN args
    ELSE [k \in DOMAIN args \cup {"user_id"} |->
             IF k = "user_id" THEN user_id ELSE args[k]]

BookArgs(room_id, date, time_slot, attendees) ==
    [room_id |-> room_id, date |-> date, time_slot |-> time_slot, title |-> "t",
     attendees |-> attendees]
\* one room and one slot on one day, written in two ways
DateInputs == {"2026-12-01", "2026-12-1"}
BookInputs ==
    {BookArgs("a-101", date, "09:00-10:00", NoAttendees) : date \in DateInputs}
\* one call for each way an argument can be invalid
InvalidBookInputs ==
    {BookArgs("Z-999", "2026-12-01", "09:00-10:00", NoAttendees),
     BookArgs("a-101", "12/01/2026", "09:00-10:00", NoAttendees),
     BookArgs("a-101", "2026-12-01", "9-10", NoAttendees),
     BookArgs("a-101", "2026-12-01", "09:00-10:00", <<25>>)}
\* the calls of the model: the valid arguments in every session with and without
\* a user_id of the model's choice, the invalid ones in one session
BookCalls ==
    {[state |-> state, function_args |-> WithUserId(input, supplied)] :
        state \in MeetingStates, input \in BookInputs, supplied \in SuppliedUserIds}
    \cup {[state |-> get_user_state_dict(get_user_by_id_or_create_guest("EMP001")),
           function_args |-> input] : input \in InvalidBookInputs}
Lower(booking_id) == "bk" \o SubSeq(booking_id, 3, Len(booking_id))
BookingIdInputs(B) ==
    DOMAIN B \cup {Lower(id) : id \in DOMAIN B} \cup {"BK202612019999"}

NoCall == [tool_name |-> None]

InitBookings ==
    /\ BOOKINGS = <<>>
    /\ booking_counter = 0
    /\ today = 1
    /\ mr_call = NoCall

\* the callback of the meeting_room agent applied to a call
MeetingGuard(tool_name, args, state) ==
    LET callback == AgentCallback("meeting_room")
    IN  validate_user_before_tool(callback.tools_requiring_user,
                                  callback.error_message, tool_name, args, state)

\* a turn of some session calls book_room: the callback, then the function
\* with the args the callback left
BookRoomCall ==
    \E call \in BookCalls :
        LET state == call.state
            function_args == call.function_args
            g == MeetingGuard("book_room", function_args, state)
            r == book_room(g.args.room_id, Get(g.args, "user_id"), g.args.date,
                           g.args.time_slot, g.args.title, g.args.attendees,
                           BOOKINGS, booking_counter, today)
        IN  /\ booking_counter < MaxBookings
            /\ IF g.ret = NoneRet
               THEN /\ BOOKINGS' = r.BOOKINGS
                    /\ booking_counter' = r.counter
                    /\ mr_call' = [tool_name |-> "book_room", state |-> state,
                                   function_args |-> function_args, args |-> g.args,
                                   before |-> BOOKINGS, result |-> r.result]
               ELSE /\ UNCHANGED <<BOOKINGS, booking_counter>>
                    /\ mr_call' = [tool_name |-> "book_room", state |-> state,
                                   function_args |-> function_args, args |-> g.args,
                                   before |-> BOOKINGS, result |-> g.ret]
            /\ UNCHANGED today
            /\ BookingFrame

\* a turn of some session calls cancel_booking
CancelBookingCall ==
    \E state \in MeetingStates, booking_id \in BookingIdInputs(BOOKINGS),
       supplied \in SuppliedUserIds :
        LET function_args == WithUserId([booking_id |-> booking_id], supplied)
            g == MeetingGuard("cancel_booking", function_args, state)
            r == cancel_booking(g.args.booking_id, Get(g.args, "user_id"),
                                BOOKINGS, today)
        IN  /\ IF g.ret = NoneRet
               THEN /\ BOOKINGS' = r.BOOKINGS
                    /\ mr_call' = [tool_name |-> "cancel_booking", state |-> state,
                                   function_args |-> function_args, args |-> g.args,
                                   before |-> BOOKINGS, result |-> r.result]
               ELSE /\ UNCHANGED BOOKINGS
                    /\ mr_call' = [tool_name |-> "cancel_booking", state |-> state,
                                   function_args |-> function_args, args |-> g.args,
                                   before |-> BOOKINGS, result |-> g.ret]
            /\ UNCHANGED <<booking_counter, today>>
            /\ BookingFrame

\* midnight: datetime.now().date() moves on
DayPasses ==
    /\ today < MaxDay
    /\ today' = today + 1
    /\ UNCHANGED <<BOOKINGS, booking_counter, mr_call>>
    /\ BookingFrame

(***************************************************************************)
(* order_agent/agent.py: the tools of the order workflow.                  *)
(***************************************************************************)
Now == "now"

ORDER_STATUS ==
    {"pending", "validating", "pending_review", "stock_checking", "stock_issue",
     "risk_checking", "risk_alert", "approved", "processing", "shipped",
     "completed", "cancelled", "rejected"}

InitialInventory ==
    [sku \in {"SKU001", "SKU002", "SKU003", "SKU004", "SKU005"} |->
        CASE sku = "SKU001" -> [name |-> "iPhone 15 Pro", stock |-> 50, price |-> 36900, reserved |-> 5]
          [] sku = "SKU002" -> [name |-> "MacBook Pro 14", stock |-> 20, price |-> 62900, reserved |-> 3]
          [] sku = "SKU003" -> [name |-> "AirPods Pro 2", stock |-> 100, price |-> 7490, reserved |-> 10]
          [] sku = "SKU004" -> [name |-> "iPad Air", stock |-> 35, price |-> 19900, reserved |-> 2]
          [] sku = "SKU005" -> [name |-> "Apple Watch S9", stock |-> 2, price |-> 12900, reserved |-> 0]]

CUSTOMER_RISK ==
    [id \in {"C001", "C002", "C003", "NEW"} |->
        CASE id = "C001" -> [name |-> "Wang Xiaoming", risk_level |-> "low", credit_limit |-> 100000, order_count |-> 25]
          [] id = "C002" -> [name |-> "Li Xiaohua", risk_level |-> "medium", credit_limit |-> 50000, order_count |-> 5]
          [] id = "C003" -> [name |-> "Zhang San", risk_level |-> "high", credit_limit |-> 10000, order_count |-> 1]
          [] id = "NEW" -> [name |-> "New Customer", risk_level |-> "unknown", credit_limit |-> 20000, order_count |-> 0]]

\* one entry of order["workflow_log"]
LogEntry(step, text) == [time |-> Now, step |-> step, result |-> text]

InitialOrders ==
    [id \in {"ORD-2025-001"} |->
        [id |-> "ORD-2025-001", customer_id |-> "C001", customer_name |-> "Wang Xiaoming",
         items |-> <<[sku |-> "SKU001", quantity |-> 1, price |-> 36900]>>,
         total_amount |-> 36900, status |-> "completed",
         shipping_address |-> "Xinyi District, Taipei City...",
         payment_method |-> "credit_card", created_at |-> "2025-11-28T10:00:00",
         workflow_log |-> <<>>]]

\* d[k] = v on a dict d
Put(d, k, v) == [x \in DOMAIN d \cup {k} |-> IF x = k THEN v ELSE d[x]]

\* f"{order_num:03d}" for the order numbers the model reaches
Pad3(n) == "00" \o ToString(n)

\* the loop of create_order over items: the items whose sku is in INVENTORY
RECURSIVE order_items(_, _)
order_items(items, inventory) ==
    IF items = <<>> THEN <<>>
    ELSE LET item == Head(items)
             rest == order_items(Tail(items), inventory)
         IN  IF item.sku \in DOMAIN inventory
             THEN <<[sku |-> item.sku, name |-> inventory[item.sku].name,
                     quantity |-> item.quantity,
                     price |-> inventory[item.sku].price]>> \o rest
             ELSE rest

RECURSIVE Total(_)
Total(items) ==
    IF items = <<>> THEN 0
    ELSE Head(items).price * Head(items).quantity + Total(Tail(items))

\* what every tool returns for an order_id that ORDERS_DB.get does not find
OrderNotFound(db, inv, queue) ==
    [result |-> [status |-> "error", message |-> "order_not_found"],
     ORDERS_DB |-> db, INVENTORY |-> inv, REVIEW_QUEUE |-> queue]

create_order(customer_id, customer_name, items, shipping_address, payment_method, db, inv, queue) ==
    LET order_id == "ORD-2025-" \o Pad3(Cardinality(DOMAIN db) + 1)
        kept == order_items(items, inv)
        total == Total(kept)
        order == [id |-> order_id, customer_id |-> customer_id,
                  customer_name |-> customer_name, items |-> kept,
                  total_amount |-> total, status |-> "pending",
                  shipping_address |-> shipping_address,
                  payment_method |-> payment_method, created_at |-> Now,
                  workflow_log |-> <<LogEntry("created", "created")>>]
    IN  [result |-> [status |-> "success", order_id |-> order_id,
                     total_amount |-> total, next_step |-> "validate_order"],
         ORDERS_DB |-> Put(db, order_id, order), INVENTORY |-> inv,
         REVIEW_QUEUE |-> queue]

\* the issues validate_order finds, in the order it appends them
validation_issues(order) ==
    (IF order.shipping_address = "" \/ Len(order.shipping_address) < 10
     THEN <<"address_incomplete">> ELSE <<>>)
    \o (IF order.total_amount <= 0 THEN <<"amount_abnormal">> ELSE <<>>)
    \o (IF order.items = <<>> THEN <<"items_empty">> ELSE <<>>)

validate_order(order_id, db, inv, queue) ==
    IF order_id \notin DOMAIN db THEN OrderNotFound(db, inv, queue)
    ELSE LET order == db[order_id]
             issues == validation_issues(order)
             log == Append(order.workflow_log,
                           LogEntry("validation",
                                    IF issues = <<>> THEN "passed" ELSE "issues"))
         IN  IF issues # <<>>
             THEN [result |-> [status |-> "needs_review", issues |-> issues],
                   ORDERS_DB |-> [db EXCEPT ![order_id].status = "pending_review",
                                            ![order_id].workflow_log = log],
                   INVENTORY |-> inv,
                   REVIEW_QUEUE |-> Append(queue, [type |-> "validation_failed",
                                                   order_id |-> order_id,
                                                   issues |-> issues,
                                                   created_at |-> Now])]
             ELSE [result |-> [status |-> "success", next_step |-> "check_inventory"],
                   ORDERS_DB |-> [db EXCEPT ![order_id].status = "validating",
                                            ![order_id].workflow_log = log],
                   INVENTORY |-> inv, REVIEW_QUEUE |-> queue]

\* the loop of check_inventory over the items of the order
RECURSIVE stock_issues(_, _)
stock_issues(items, inv) ==
    IF items = <<>> THEN <<>>
    ELSE LET item == Head(items)
             rest == stock_issues(Tail(items), inv)
         IN  IF item.sku \notin DOMAIN inv
             THEN <<[sku |-> item.sku, issue |-> "no_such_product", available |-> 0,
                     required |-> item.quantity]>> \o rest
             ELSE LET available == inv[item.sku].stock - inv[item.sku].reserved
                  IN  IF available < item.quantity
                      THEN <<[sku |-> item.sku, name |-> inv[item.sku].name,
                              issue |-> "insufficient_stock",
                              available |-> available,
                              required |-> item.quantity]>> \o rest
                      ELSE rest

check_inventory(order_id, db, inv, queue) ==
    IF order_id \notin DOMAIN db THEN OrderNotFound(db, inv, queue)
    ELSE LET order == db[order_id]
             issues == stock_issues(order.items, inv)
             log == Append(order.workflow_log,
                           LogEntry("inventory_check",
                                    IF issues = <<>> THEN "sufficient" ELSE "issues"))
         IN  IF issues # <<>>
             THEN [result |-> [status |-> "needs_decision", stock_issues |-> issues],
                   ORDERS_DB |-> [db EXCEPT ![order_id].status = "stock_issue",
                                            ![order_id].workflow_log = log],
                   INVENTORY |-> inv,
                   REVIEW_QUEUE |-> Append(queue, [type |-> "stock_issue",
                                                   order_id |-> order_id,
                                                   issues |-> issues,
                                                   created_at |-> Now])]
             ELSE [result |-> [status |-> "success", next_step |-> "check_risk"],
                   ORDERS_DB |-> [db EXCEPT ![order_id].status = "stock_checking",
                                            ![order_id].workflow_log = log],
                   INVENTORY |-> inv, REVIEW_QUEUE |-> queue]

\* CUSTOMER_RISK.get(customer_id, CUSTOMER_RISK["NEW"])
customer_of(customer_id) ==
    IF customer_id \in DOMAIN CUSTOMER_RISK
    THEN CUSTOMER_RISK[customer_id] ELSE CUSTOMER_RISK["NEW"]

\* the four rules of check_risk, in the order it appends their flags
risk_flags(order, customer) ==
    (IF customer.order_count < 3 /\ order.total_amount > 30000
     THEN <<[rule |-> "new_customer_high_value", severity |-> "high"]>> ELSE <<>>)
    \o (IF order.total_amount > customer.credit_limit
        THEN <<[rule |-> "exceed_credit_limit", severity |-> "high"]>> ELSE <<>>)
    \o (IF customer.risk_level = "high"
        THEN <<[rule |-> "high_risk_customer", severity |-> "high"]>> ELSE <<>>)
    \o (IF order.payment_method = "cash_on_delivery" /\ order.total_amount > 20000
        THEN <<[rule |-> "cod_high_value", severity |-> "medium"]>> ELSE <<>>)

check_risk(order_id, db, inv, queue) ==
    IF order_id \notin DOMAIN db THEN OrderNotFound(db, inv, queue)
    ELSE LET order == db[order_id]
             customer == customer_of(order.customer_id)
             flags == risk_flags(order, customer)
             log == Append(order.workflow_log,
                           LogEntry("risk_check",
                                    IF flags = <<>> THEN "passed" ELSE "flags"))
             high_severity == \E i \in 1..Len(flags) : flags[i].severity = "high"
         IN  IF high_severity
             THEN [result |-> [status |-> "needs_review", risk_flags |-> flags],
                   ORDERS_DB |-> [db EXCEPT ![order_id].status = "risk_alert",
                                            ![order_id].workflow_log = log],
                   INVENTORY |-> inv,
                   REVIEW_QUEUE |-> Append(queue, [type |-> "risk_alert",
                                                   order_id |-> order_id,
                                                   risk_flags |-> flags,
                                                   customer_info |-> customer,
                                                   created_at |-> Now])]
             ELSE [result |-> [status |-> "success", next_step |-> "process_order"],
                   ORDERS_DB |-> [db EXCEPT ![order_id].status = "approved",
                                            ![order_id].workflow_log = log],
                   INVENTORY |-> inv, REVIEW_QUEUE |-> queue]

\* [r for r in REVIEW_QUEUE if r.get("order_id") != order_id]
without_order(queue, order_id) == SelectSeq(queue, LAMBDA r : r.order_id # order_id)

approve_order(order_id, reviewer, note, db, inv, queue) ==
    IF order_id \notin DOMAIN db THEN OrderNotFound(db, inv, queue)
    ELSE IF db[order_id].status \notin {"pending_review", "risk_alert"}
    THEN [result |-> [status |-> "error", message |-> "no_review_needed"],
          ORDERS_DB |-> db, INVENTORY |-> inv, REVIEW_QUEUE |-> queue]
    ELSE [result |-> [status |-> "success", next_step |-> "process_order"],
          ORDERS_DB |-> [db EXCEPT ![order_id].status = "approved",
                                   ![order_id].workflow_log =
                                       Append(@, LogEntry("manual_approval", reviewer))],
          INVENTORY |-> inv,
          REVIEW_QUEUE |-> without_order(queue, order_id)]

reject_order(order_id, reviewer, reason, db, inv, queue) ==
    IF order_id \notin DOMAIN db THEN OrderNotFound(db, inv, queue)
    ELSE [result |-> [status |-> "success", reason |-> reason],
          ORDERS_DB |-> [db EXCEPT ![order_id].status = "rejected",
                                   ![order_id].workflow_log =
                                       Append(@, LogEntry("manual_rejection", reviewer))],
          INVENTORY |-> inv,
          REVIEW_QUEUE |-> without_order(queue, order_id)]

decisions == {"partial_ship", "backorder", "cancel"}

handle_stock_decision(order_id, decision, reviewer, note, db, inv, queue) ==
    IF order_id \notin DOMAIN db THEN OrderNotFound(db, inv, queue)
    ELSE IF db[order_id].status # "stock_issue"
    THEN [result |-> [status |-> "error", message |-> "not_in_stock_issue"],
          ORDERS_DB |-> db, INVENTORY |-> inv, REVIEW_QUEUE |-> queue]
    ELSE IF decision \notin decisions
    THEN [result |-> [status |-> "error", message |-> "invalid_decision"],
          ORDERS_DB |-> db, INVENTORY |-> inv, REVIEW_QUEUE |-> queue]
    ELSE [result |-> [status |-> "success", decision |-> decision],
          ORDERS_DB |-> [db EXCEPT ![order_id].status =
                                       CASE decision = "cancel" -> "cancelled"
                                         [] decision = "partial_ship" -> "approved"
                                         [] OTHER -> "pending",
                                   ![order_id].workflow_log =
                                       Append(@, LogEntry("stock_decision", decision))],
          INVENTORY |-> inv, REVIEW_QUEUE |-> queue]

\* the loop of process_order: INVENTORY[sku]["stock"] -= qty for every item
RECURSIVE deduct(_, _)
deduct(items, inv) ==
    IF items = <<>> THEN inv
    ELSE LET item == Head(items)
         IN  deduct(Tail(items),
                    IF item.sku \in DOMAIN inv
                    THEN [inv EXCEPT ![item.sku].stock = @ - item.quantity]
                    ELSE inv)

\* "SF" and twelve random digits
TrackingNumbers == {"SF000000000001", "SF000000000002"}

process_order(order_id, tracking_number, db, inv, queue) ==
    IF order_id \notin DOMAIN db THEN OrderNotFound(db, inv, queue)
    ELSE IF db[order_id].status # "approved"
    THEN [result |-> [status |-> "error", message |-> "not_approved"],
          ORDERS_DB |-> db, INVENTORY |-> inv, REVIEW_QUEUE |-> queue]
    ELSE LET order == db[order_id]
             log == order.workflow_log
                        \o <<LogEntry("processing", "processing"),
                             LogEntry("shipped", tracking_number)>>
             shipped == [k \in DOMAIN order \cup {"tracking_number", "shipped_at"} |->
                            CASE k = "status" -> "shipped"
                              [] k = "tracking_number" -> tracking_number
                              [] k = "shipped_at" -> Now
                              [] k = "workflow_log" -> log
                              [] OTHER -> order[k]]
         IN  [result |-> [status |-> "success", tracking_number |-> tracking_number],
              ORDERS_DB |-> [db EXCEPT ![order_id] = shipped],
              INVENTORY |-> deduct(order.items, inv),
              REVIEW_QUEUE |-> queue]

\* what the model passes to create_order: an order that passes every check, one
\* for more than the stock, one of a high-risk customer, and one whose only
\* item is not in INVENTORY
LongAddress == "No. 7, Section 5, Xinyi Road, Taipei"
OrderInputs ==
    {[customer_id |-> "C001", items |-> <<[sku |-> "SKU005", quantity |-> 1]>>],
     [customer_id |-> "C001", items |-> <<[sku |-> "SKU005", quantity |-> 3]>>],
     [customer_id |-> "C003", items |-> <<[sku |-> "SKU005", quantity |-> 1]>>],
     [customer_id |-> "C001", items |-> <<[sku |-> "SKU999", quantity |-> 1]>>]}
OrderIdInputs(db) == DOMAIN db \cup {"ORD-0000-000"}
DecisionInputs == decisions \cup {"wait"}

NoOrderCall == [tool_name |-> None]

InitOrders ==
    /\ ORDERS_DB = InitialOrders
    /\ INVENTORY = InitialInventory
    /\ REVIEW_QUEUE = <<>>
    /\ order_calls = 0
    /\ order_call = NoOrderCall

\* the tables as a tool call r leaves them, and the record of the call
OrderToolCall(tool_name, order_id, r) ==
    /\ order_calls < MaxOrderCalls
    /\ order_calls' = order_calls + 1
    /\ ORDERS_DB' = r.ORDERS_DB
    /\ INVENTORY' = r.INVENTORY
    /\ REVIEW_QUEUE' = r.REVIEW_QUEUE
    /\ order_call' = [tool_name |-> tool_name, order_id |-> order_id,
                      status_before |-> IF order_id \in DOMAIN ORDERS_DB
                                        THEN ORDERS_DB[order_id].status ELSE None,
                      result |-> r.result]
    /\ OrderFrame

CreateOrderCall ==
    \E input \in OrderInputs :
        LET r == create_order(input.customer_id, "customer", input.items,
                              LongAddress, "credit_card",
                              ORDERS_DB, INVENTORY, REVIEW_QUEUE)
        IN  /\ Cardinality(DOMAIN ORDERS_DB) < Cardinality(DOMAIN InitialOrders) + MaxOrders
            /\ OrderToolCall("create_order", r.result.order_id, r)

ValidateOrderCall ==
    \E order_id \in OrderIdInputs(ORDERS_DB) :
        OrderToolCall("validate_order", order_id,
                      validate_order(order_id, ORDERS_DB, INVENTORY, REVIEW_QUEUE))

CheckInventoryCall ==
    \E order_id \in OrderIdInputs(ORDERS_DB) :
        OrderToolCall("check_inventory", order_id,
                      check_inventory(order_id, ORDERS_DB, INVENTORY, REVIEW_QUEUE))

CheckRiskCall ==
    \E order_id \in OrderIdInputs(ORDERS_DB) :
        OrderToolCall("check_risk", order_id,
                      check_risk(order_id, ORDERS_DB, INVENTORY, REVIEW_QUEUE))

ApproveOrderCall ==
    \E order_id \in OrderIdInputs(ORDERS_DB) :
        OrderToolCall("approve_order", order_id,
                      approve_order(order_id, "reviewer", "note",
                                    ORDERS_DB, INVENTORY, REVIEW_QUEUE))

RejectOrderCall ==
    \E order_id \in OrderIdInputs(ORDERS_DB) :
        OrderToolCall("reject_order", order_id,
                      reject_order(order_id, "reviewer", "reason",
                                   ORDERS_DB, INVENTORY, REVIEW_QUEUE))

HandleStockDecisionCall ==
    \E order_id \in OrderIdInputs(ORDERS_DB), decision \in DecisionInputs :
        OrderToolCall("handle_stock_decision", order_id,
                      handle_stock_decision(order_id, decision, "reviewer", "note",
                                            ORDERS_DB, INVENTORY, REVIEW_QUEUE))

ProcessOrderCall ==
    \E order_id \in OrderIdInputs(ORDERS_DB), tracking_number \in TrackingNumbers :
        OrderToolCall("process_order", order_id,
                      process_order(order_id, tracking_number,
                                    ORDERS_DB, INVENTORY, REVIEW_QUEUE))

(***************************************************************************)
(* expense_agent/agent.py: submit_expense, approve_expense and             *)
(* process_payment.                                                        *)
(***************************************************************************)
\* class ExpenseStatus
DRAFT == "draft"
PENDING_MANAGER == "pending_manager"
PENDING_DIRECTOR == "pending_director"
PENDING_FINANCE == "pending_finance"
APPROVED == "approved"
REJECTED == "rejected"
PAID == "paid"

\* APPROVAL_LIMITS without its "ceo" entry, float('inf')
APPROVAL_LIMITS == [auto |-> 1000, manager |-> 5000, director |-> 50000]

EMPLOYEES ==
    [id \in {"emp001", "emp002", "emp003", "mgr001", "mgr002", "dir001", "ceo001",
             "fin001"} |->
        CASE id = "emp001" -> [name |-> "Wang Xiaoming", department |-> "R&D", manager |-> "mgr001"]
          [] id = "emp002" -> [name |-> "Li Xiaohua", department |-> "Sales", manager |-> "mgr002"]
          [] id = "emp003" -> [name |-> "Zhang Xiaomei", department |-> "HR", manager |-> "mgr003"]
          [] id = "mgr001" -> [name |-> "Manager Chen", department |-> "R&D", manager |-> "dir001", is_manager |-> TRUE]
          [] id = "mgr002" -> [name |-> "Manager Lin", department |-> "Sales", manager |-> "dir001", is_manager |-> TRUE]
          [] id = "dir001" -> [name |-> "Director Huang", department |-> "Operations", manager |-> "ceo001", is_director |-> TRUE]
          [] id = "ceo001" -> [name |-> "General Manager", department |-> "Management", is_ceo |-> TRUE]
          [] id = "fin001" -> [name |-> "Finance Clerk", department |-> "Finance", is_finance |-> TRUE]]

\* the steps of a workflow list, in ASCII
MANAGER_REVIEW == "manager_review"
DIRECTOR_REVIEW == "director_review"
CEO_REVIEW == "ceo_review"
FINANCE_REVIEW == "finance_review"
PAYMENT == "payment"

\* _generate_expense_id, after the counter was incremented
generate_expense_id(counter, now) == "EXP" \o strftime(now) \o Pad4(counter)

get_next_approver(expense) ==
    CASE expense.status = DRAFT ->
           IF expense.amount <= APPROVAL_LIMITS.auto
           THEN "fin001" ELSE EMPLOYEES[expense.user_id].manager
      [] expense.status = PENDING_MANAGER ->
           IF expense.amount > APPROVAL_LIMITS.manager THEN "dir001" ELSE "fin001"
      [] expense.status = PENDING_DIRECTOR ->
           IF expense.amount > APPROVAL_LIMITS.director THEN "ceo001" ELSE "fin001"
      [] OTHER -> "fin001"

\* the initial status and the workflow list submit_expense chooses by amount
initial_status(amount) ==
    IF amount <= APPROVAL_LIMITS.auto THEN PENDING_FINANCE ELSE PENDING_MANAGER

workflow_of(amount) ==
    IF amount <= APPROVAL_LIMITS.auto THEN <<FINANCE_REVIEW, PAYMENT>>
    ELSE IF amount <= APPROVAL_LIMITS.manager
    THEN <<MANAGER_REVIEW, FINANCE_REVIEW, PAYMENT>>
    ELSE IF amount <= APPROVAL_LIMITS.director
    THEN <<MANAGER_REVIEW, DIRECTOR_REVIEW, FINANCE_REVIEW, PAYMENT>>
    ELSE <<MANAGER_REVIEW, DIRECTOR_REVIEW, CEO_REVIEW, FINANCE_REVIEW, PAYMENT>>

ExpenseError(code, reports, counter) ==
    [result |-> [status |-> "error", message |-> code],
     EXPENSE_REPORTS |-> reports, counter |-> counter]

submit_expense(user_id, category, amount, description, receipt_count, reports, counter, now) ==
    IF user_id \notin DOMAIN EMPLOYEES
    THEN ExpenseError("no_such_employee", reports, counter)
    ELSE IF amount <= 0 THEN ExpenseError("amount_not_positive", reports, counter)
    ELSE LET expense_id == generate_expense_id(counter + 1, now)
             expense == [expense_id |-> expense_id, user_id |-> user_id,
                         user_name |-> EMPLOYEES[user_id].name,
                         department |-> EMPLOYEES[user_id].department,
                         category |-> category, amount |-> amount,
                         description |-> description,
                         receipt_count |-> receipt_count,
                         status |-> initial_status(amount),
                         workflow |-> workflow_of(amount),
                         current_step |-> 0,
                         approval_history |-> <<>>,
                         created_at |-> Now, updated_at |-> Now]
         IN  [result |-> [status |-> "success", expense_id |-> expense_id,
                          amount |-> amount, workflow |-> expense.workflow,
                          next_approver |-> EMPLOYEES[get_next_approver(expense)].name],
              EXPENSE_REPORTS |-> Put(reports, expense_id, expense),
              counter |-> counter + 1]

\* the status approve_expense moves to on a decision other than "reject"
status_after_approval(expense) ==
    CASE expense.status = PENDING_MANAGER ->
           IF expense.amount > APPROVAL_LIMITS.manager
           THEN PENDING_DIRECTOR ELSE PENDING_FINANCE
      [] expense.status = PENDING_DIRECTOR -> PENDING_FINANCE
      [] expense.status = PENDING_FINANCE -> APPROVED
      [] OTHER -> expense.status

approve_expense(expense_id, approver_id, decision, comment, reports) ==
    IF expense_id \notin DOMAIN reports
    THEN [result |-> [status |-> "error", message |-> "no_such_expense"],
          EXPENSE_REPORTS |-> reports]
    ELSE IF approver_id \notin DOMAIN EMPLOYEES
    THEN [result |-> [status |-> "error", message |-> "no_such_approver"],
          EXPENSE_REPORTS |-> reports]
    ELSE LET expense == reports[expense_id]
             history == Append(expense.approval_history,
                               [approver_id |-> approver_id,
                                approver_name |-> EMPLOYEES[approver_id].name,
                                decision |-> decision, comment |-> comment,
                                timestamp |-> Now])
         IN  IF decision = "reject"
             THEN [result |-> [status |-> "success", expense_id |-> expense_id,
                               result |-> "rejected"],
                   EXPENSE_REPORTS |->
                       [reports EXCEPT ![expense_id].approval_history = history,
                                       ![expense_id].updated_at = Now,
                                       ![expense_id].status = REJECTED]]
             ELSE [result |-> [status |-> "success", expense_id |-> expense_id,
                               result |-> "approved"],
                   EXPENSE_REPORTS |->
                       [reports EXCEPT ![expense_id].approval_history = history,
                                       ![expense_id].updated_at = Now,
                                       ![expense_id].current_step = @ + 1,
                                       ![expense_id].status =
                                           status_after_approval(expense)]]

process_payment(expense_id, finance_id, reports) ==
    IF expense_id \notin DOMAIN reports
    THEN [result |-> [status |-> "error", message |-> "no_such_expense"],
          EXPENSE_REPORTS |-> reports]
    ELSE IF reports[expense_id].status # APPROVED
    THEN [result |-> [status |-> "error", message |-> "not_approved"],
          EXPENSE_REPORTS |-> reports]
    ELSE LET expense == reports[expense_id]
             paid == [k \in DOMAIN expense \cup {"paid_at", "paid_by"} |->
                         CASE k = "status" -> PAID
                           [] k = "paid_at" -> Now
                           [] k = "paid_by" -> finance_id
                           [] OTHER -> expense[k]]
         IN  [result |-> [status |-> "success", expense_id |-> expense_id,
                          amount |-> expense.amount],
              EXPENSE_REPORTS |-> [reports EXCEPT ![expense_id] = paid]]

\* what the model passes to the tools: an amount in each tier, an amount and an
\* employee submit_expense refuses
SubmitInputs ==
    {[user_id |-> "emp001", amount |-> a] : a \in {0, 800, 3000, 20000, 60000}}
        \cup {[user_id |-> "emp999", amount |-> 800]}
ApproverInputs == {"mgr001", "fin001", "nobody"}
ExpenseDecisions == {"approve", "reject"}
ExpenseIdInputs(reports) == DOMAIN reports \cup {"EXP000000000000"}

NoExpenseCall == [tool_name |-> None]

InitExpenses ==
    /\ EXPENSE_REPORTS = <<>>
    /\ expense_counter = 0
    /\ expense_calls = 0
    /\ expense_call = NoExpenseCall

\* the status of the expense a call names, None when there is none
StatusOf(reports, expense_id) ==
    IF expense_id \in DOMAIN reports THEN reports[expense_id].status ELSE None

SubmitExpenseCall ==
    \E input \in SubmitInputs :
        LET r == submit_expense(input.user_id, "travel", input.amount, "trip", 1,
                                EXPENSE_REPORTS, expense_counter, today)
        IN  /\ expense_counter < MaxExpenses
            /\ EXPENSE_REPORTS' = r.EXPENSE_REPORTS
            /\ expense_counter' = r.counter
            /\ expense_call' = [tool_name |-> "submit_expense", expense_id |-> None,
                                status_before |-> None, decision |-> None,
                                result |-> r.result]
            /\ UNCHANGED expense_calls
            /\ ExpenseFrame

ApproveExpenseCall ==
    \E expense_id \in ExpenseIdInputs(EXPENSE_REPORTS),
       approver_id \in ApproverInputs, decision \in ExpenseDecisions :
        LET r == approve_expense(expense_id, approver_id, decision, "", EXPENSE_REPORTS)
        IN  /\ expense_calls < MaxExpenseCalls
            /\ expense_calls' = expense_calls + 1
            /\ EXPENSE_REPORTS' = r.EXPENSE_REPORTS
            /\ expense_call' = [tool_name |-> "approve_expense",
                                expense_id |-> expense_id,
                                status_before |-> StatusOf(EXPENSE_REPORTS, expense_id),
                                decision |-> decision, result |-> r.result]
            /\ UNCHANGED expense_counter
            /\ ExpenseFrame

ProcessPaymentCall ==
    \E expense_id \in ExpenseIdInputs(EXPENSE_REPORTS) :
        LET r == process_payment(expense_id, "fin001", EXPENSE_REPORTS)
        IN  /\ expense_calls < MaxExpenseCalls
            /\ expense_calls' = expense_calls + 1
            /\ EXPENSE_REPORTS' = r.EXPENSE_REPORTS
            /\ expense_call' = [tool_name |-> "process_payment",
                                expense_id |-> expense_id,
                                status_before |-> StatusOf(EXPENSE_REPORTS, expense_id),
                                decision |-> None, result |-> r.result]
            /\ UNCHANGED expense_counter
            /\ ExpenseFrame

(***************************************************************************)
(* Specifications.                                                         *)
(***************************************************************************)
InitDomain == InitBookings /\ InitOrders /\ InitExpenses

Init == InitSession /\ GuardIdle /\ InitTurn /\ InitRegistry /\ InitDomain

Next ==
    \E p \in Handlers :
        \/ BeginRequest(p)
        \/ ResolveIdentity(p)
        \/ ResolveRaises(p)
        \/ GetSession(p)
        \/ CreateSession(p)
        \/ CreateSessionOverwrites(p)
        \/ CreateSessionRaises(p)
        \/ ToolWritesState(p)
        \/ EndRequest(p)

\* concurrent requests: the session manager interleaved at its awaits
Spec == Init /\ [][Next]_vars

\* one handler serving its requests in turn, with the tool calls of each turn
NextTurn ==
    \/ BeginRequest(1)
    \/ ResolveIdentity(1)
    \/ ResolveRaises(1)
    \/ GetSession(1)
    \/ CreateSession(1)
    \/ GuardedToolCall(1)
    \/ UnguardedToolCall(1)
    \/ ToolWritesState(1)
    \/ ToolWritesIdentityKey(1)
    \/ EndRequest(1)

SpecTurn == Init /\ [][NextTurn]_vars

NextGuard == GuardCall \/ ToolExecutes \/ ToolSkipped

\* one guard call on every combination of configuration, tool, args and state
InitGuardCall == InitSession /\ InitGuard /\ InitTurn /\ InitRegistry /\ InitDomain

SpecGuard == InitGuardCall /\ [][NextGuard]_vars

\* one blocking chat request: session resolution, then run_agent on the raw events
NextChat ==
    \/ ChatRequest(1)
    \/ ResolveIdentity(1)
    \/ ResolveRaises(1)
    \/ GetSession(1)
    \/ CreateSession(1)
    \/ ChatSessionRaised(1)
    \/ RunAgent(1)
    \/ RunNextEvent(1)
    \/ RunPumpRaises(1)
    \/ RunPumpEnds(1)

SpecChat == Init /\ [][NextChat]_vars

\* one streaming chat request: event_generator and its consumer
NextStream ==
    \/ StreamRequest(1)
    \/ ResolveIdentity(1)
    \/ ResolveRaises(1)
    \/ GetSession(1)
    \/ CreateSession(1)
    \/ StreamSessionRaised(1)
    \/ StreamStart(1)
    \/ StreamNextEvent(1)
    \/ StreamResume(1)
    \/ StreamPumpRaises(1)
    \/ StreamPumpEnds(1)
    \/ StreamFinish(1)
    \/ ClientDisconnects(1)

SpecStream == Init /\ [][NextStream]_vars

\* one request to any endpoint of the server
NextApi ==
    \/ ChatRequest(1)
    \/ quick_chat(1)
    \/ StreamRequest(1)
    \/ create_session(1)
    \/ list_agents(1)
    \/ get_agent_info(1)
    \/ ResolveIdentity(1)
    \/ ResolveRaises(1)
    \/ GetSession(1)
    \/ CreateSession(1)
    \/ ChatSessionRaised(1)
    \/ RunAgent(1)
    \/ RunNextEvent(1)
    \/ RunPumpRaises(1)
    \/ RunPumpEnds(1)
    \/ StreamSessionRaised(1)
    \/ StreamStart(1)
    \/ StreamNextEvent(1)
    \/ StreamResume(1)
    \/ StreamPumpRaises(1)
    \/ StreamPumpEnds(1)
    \/ StreamFinish(1)
    \/ ClientDisconnects(1)
    \/ CreateSessionEndpointRaised(1)
    \/ CreateSessionEndpointReturns(1)

SpecApi == Init /\ [][NextApi]_vars

\* the tools of the meeting_room agent, called by the turns of any sessions
NextBookings == BookRoomCall \/ CancelBookingCall \/ DayPasses

SpecBookings == Init /\ [][NextBookings]_vars

\* the tools of the order agent, called in any order on any order
NextOrders ==
    \/ CreateOrderCall
    \/ ValidateOrderCall
    \/ CheckInventoryCall
    \/ CheckRiskCall
    \/ ApproveOrderCall
    \/ RejectOrderCall
    \/ HandleStockDecisionCall
    \/ ProcessOrderCall

SpecOrders == Init /\ [][NextOrders]_vars

\* the tools of the expense agent, called in any order by any employee
NextExpenses == SubmitExpenseCall \/ ApproveExpenseCall \/ ProcessPaymentCall

SpecExpenses == Init /\ [][NextExpenses]_vars

(***************************************************************************)
(* The guard's contract, checked under SpecGuard.                          *)
(***************************************************************************)
\* the configured names, read as the set of tool names that require identity
NameIsListed == g_tools_requiring_user.is_none \/ g_tool_name \in g_tools_requiring_user.names
IsRegistered == "is_registered" \in DOMAIN g_state /\ g_state["is_registered"] = TRUE
TrustedUserId == IF "user_id" \in DOMAIN g_state THEN g_state["user_id"] ELSE None
ExpectedMessage ==
    IF g_error_message \in {None, ""} THEN default_error ELSE g_error_message

\* C2: a call of the guard on a gated tool name whose session state has
\* is_registered false or absent returns the block payload (status blocked,
\* the configured message or the fixed default), and the tool function
\* does not run for that call.
C2_UnregisteredGatedCallIsBlocked ==
    (g_pc # "ready" /\ NameIsListed /\ ~IsRegistered) =>
        /\ g_ret = [kind |-> "dict", status |-> "blocked",
                    error_message |-> ExpectedMessage]
        /\ g_pc # "executed"
        /\ g_tool_args = <<>>

C2_Witness ==
    /\ g_pc = "blocked"
    /\ g_tools_requiring_user = ToolList({"book_room"})
    /\ g_tool_name = "book_room"
    /\ "is_registered" \notin DOMAIN g_state
    /\ g_error_message = "custom message"
    /\ g_ret.error_message = "custom message"

\* C3: for a gated tool call on a session with is_registered true, args["user_id"]
\* after the guard is the session state's user_id whatever the caller supplied:
\* every call that differs only in the caller's user_id argument reaches the
\* tool with the same user_id.
C3_GatedCallGetsTrustedUserId ==
    (g_pc # "ready" /\ NameIsListed /\ IsRegistered) =>
        /\ g_ret = NoneRet
        /\ g_args["user_id"] = TrustedUserId
        /\ g_pc = "executed" => g_tool_args["user_id"] = TrustedUserId
        /\ \A other \in CallerArgs :
              validate_user_before_tool(g_tools_requiring_user, g_error_message,
                                        g_tool_name, other, g_state).args["user_id"]
                  = g_args["user_id"]

C3_Witness ==
    /\ g_pc = "executed"
    /\ g_tools_requiring_user = ToolList({"book_room"})
    /\ g_tool_name = "book_room"
    /\ "user_id" \in DOMAIN g_function_args
    /\ g_function_args["user_id"] = "EMP002"
    /\ IsRegistered
    /\ g_tool_args["user_id"] = "EMP001"

\* C4 as stated: a guard configured with None or with an empty list of tool
\* names gates every tool, so a call with is_registered false or absent is blocked.
C4_NoneOrEmptyGatesEveryTool ==
    (g_pc # "ready" /\ ~IsRegistered
       /\ (g_tools_requiring_user.is_none \/ g_tools_requiring_user.names = {})) =>
        /\ g_ret # NoneRet
        /\ g_pc # "executed"

\* C4 as amended: a guard configured with None gates every tool (a call with
\* is_registered false or absent is blocked); a guard configured with an empty
\* list gates no tool (every call is allowed, args untouched, whatever
\* is_registered is).
C4_NoneGatesAllEmptyGatesNone ==
    /\ (g_pc # "ready" /\ g_tools_requiring_user.is_none /\ ~IsRegistered) =>
          (g_ret # NoneRet /\ g_pc # "executed")
    /\ (g_pc # "ready" /\ ~g_tools_requiring_user.is_none
          /\ g_tools_requiring_user.names = {}) =>
          (g_ret = NoneRet /\ g_args = g_function_args /\ g_pc # "blocked")

C4_Witness ==
    /\ g_pc = "executed"
    /\ g_tools_requiring_user = ToolList({})
    /\ ~IsRegistered
    /\ g_tool_args = g_function_args

\* C5 as stated: whenever the guard does not block a call, gated tool name or
\* not, args["user_id"] is the session state's user_id when the tool runs.
C5_EveryAllowedCallGetsTrustedUserId ==
    (g_pc # "ready" /\ g_ret = NoneRet) =>
        /\ "user_id" \in DOMAIN g_args
        /\ g_args["user_id"] = TrustedUserId
        /\ g_pc = "executed" =>
              ("user_id" \in DOMAIN g_tool_args /\ g_tool_args["user_id"] = TrustedUserId)

\* C5 as amended: whenever the guard does not block a call to a tool name it
\* gates, args is the caller's args with user_id set to the session state's
\* user_id (every other key as supplied); a call to a tool name outside the
\* configured list is allowed with args exactly as the caller supplied them.
C5_AllowedCallArgs ==
    (g_pc # "ready" /\ g_ret = NoneRet) =>
        /\ NameIsListed =>
              /\ DOMAIN g_args = DOMAIN g_function_args \cup {"user_id"}
              /\ g_args["user_id"] = TrustedUserId
              /\ \A k \in DOMAIN g_function_args \ {"user_id"} :
                    g_args[k] = g_function_args[k]
        /\ ~NameIsListed => g_args = g_function_args
        /\ g_pc = "executed" => g_tool_args = g_args

C5_Witness ==
    /\ g_pc = "executed"
    /\ g_tools_requiring_user = ToolList({"book_room"})
    /\ g_tool_name = "list_buildings"
    /\ IsRegistered
    /\ TrustedUserId = "EMP001"
    /\ "user_id" \in DOMAIN g_function_args
    /\ g_tool_args["user_id"] = "EMP002"

(***************************************************************************)
(* The session manager's contract, checked under Spec (concurrent          *)
(* requests) and SpecTurn (the tool calls of a turn).                      *)
(***************************************************************************)
\* the keys get_user_state_dict can write
IdentityKeys ==
    {"user_id", "user_name", "department", "email", "job_title", "phone", "is_registered"}

\* C1: concurrent get_or_create_session calls with the same agent_id, user_id
\* and supplied session_id, interleaved at the awaits, create at most one
\* session for that triple: the later caller adopts the session the earlier one
\* created, neither storing a session over it nor failing on it.
C1_AtMostOneCreation ==
    /\ \A key \in DOMAIN created : created[key] <= 1
    /\ \A p \in Handlers : error[p] # "AlreadyExistsError"

\* C6: during a turn of any registered agent no tool function executes unless
\* the guard callback was invoked for that call first.
C6_GuardInvokedBeforeEveryTool ==
    \A p \in Handlers :
        (tool_exec[p].called /\ tool_exec[p].executed) => tool_exec[p].guard_invoked

\* C7: a failure of the identity resolver during get_or_create_session is
\* absorbed: no request ends with the resolver's error, the call goes on as if
\* the resolver had found nobody.
C7_ResolverFailureAbsorbed ==
    \A p \in Handlers : error[p] # "IdentityUnavailable"

\* C8: for a user id absent from the identity directory, the session
\* get_or_create_session yields has is_registered = true, user_name = the
\* guest prefix followed by the id and the guest department, and two calls
\* with the same id hold the same identity.
C8_GuestIdentity ==
    \A p \in Handlers :
        (pc[p] = "running" /\ Upper(req[p].user_id) \notin DOMAIN MOCK_USER_DATABASE) =>
            LET state == sessions[TurnKey(p)]
            IN  /\ state["is_registered"] = TRUE
                /\ state["user_name"] = "GUEST_" \o req[p].user_id
                /\ state["department"] = "UNKNOWN_DEPT"
                /\ user_info[p].user_name = state["user_name"]
                /\ \A q \in Handlers :
                      (pc[q] = "running" /\ req[q].user_id = req[p].user_id) =>
                          user_info[q] = user_info[p]

C8_Witness ==
    \E p \in Handlers :
        /\ pc[p] = "running"
        /\ req[p].agent_id = "meeting_room"
        /\ req[p].user_id = "zzzz"
        /\ sessions[TurnKey(p)]["user_name"] = "GUEST_zzzz"
        /\ sessions[TurnKey(p)]["is_registered"] = TRUE

\* C9: get_or_create_session called with a session_id that exists under
\* (agent, user_id) returns that session_id, creates no session, and leaves
\* every state key that is not an identity attribute present with its value.
C9_ExistingSessionMerged ==
    [][\A p \in Handlers :
          (pc[p] = "get" /\ pc'[p] = "running") =>
              LET key == SessionKey(req[p].agent_id, req[p].user_id, req[p].session_id)
              IN  /\ result'[p] = req[p].session_id
                  /\ DOMAIN sessions' = DOMAIN sessions
                  /\ created' = created
                  /\ nextUuid' = nextUuid
                  /\ \A k \in DOMAIN sessions[key] \ IdentityKeys :
                        /\ k \in DOMAIN sessions'[key]
                        /\ sessions'[key][k] = sessions[key][k]]_vars

C9_Witness ==
    \E p \in Handlers :
        /\ pc[p] = "running"
        /\ session[p].found
        /\ result[p] = req[p].session_id
        /\ "tool_key" \in DOMAIN session[p].state
        /\ "tool_key" \in DOMAIN sessions[TurnKey(p)]
        /\ sessions[TurnKey(p)]["tool_key"] = session[p].state["tool_key"]

\* C10: every session that get_or_create_session has injected an identity
\* into holds is_registered = true in every reachable state: no later call,
\* merge or tool write clears or removes it.
C10_RegisteredForever ==
    \A key \in DOMAIN sessions :
        /\ "is_registered" \in DOMAIN sessions[key]
        /\ sessions[key]["is_registered"] = TRUE

C10_Witness ==
    \E p \in Handlers :
        /\ pc[p] = "running"
        /\ served = MaxRequests
        /\ session[p].found
        /\ session[p].state["is_registered"] = TRUE
        /\ "tool_key" \in DOMAIN sessions[TurnKey(p)]
        /\ sessions[TurnKey(p)]["is_registered"] = TRUE

\* C11: every get_or_create_session call invokes the identity resolver exactly
\* once (none before the await, one from then on, whether the session exists,
\* is created or the call fails), and on the existing-session path every key of
\* the freshly resolved identity is written over the value the session state
\* held: the state is never left with a cached identity.
C11_ResolverOncePerCallAndRefresh ==
    /\ [](\A p \in Handlers :
             /\ pc[p] \in {"idle", "resolve"} => resolver_calls[p] = 0
             /\ pc[p] \in {"get", "create", "running", "failed"} => resolver_calls[p] = 1)
    /\ [][\A p \in Handlers :
             (pc[p] = "get" /\ pc'[p] = "running") =>
                 LET key == SessionKey(req[p].agent_id, req[p].user_id, req[p].session_id)
                     fresh == to_dict(user_info[p])
                 IN  /\ resolver_calls'[p] = 1
                     /\ \A k \in DOMAIN fresh : sessions'[key][k] = fresh[k]
                     /\ sessions'[key]["is_registered"] = TRUE]_vars

C11_Witness ==
    \E p \in Handlers :
        /\ pc[p] = "running"
        /\ resolver_calls[p] = 1
        /\ req[p].user_id = "EMP001"
        /\ session[p].found
        /\ session[p].state["user_name"] = "v1"
        /\ sessions[TurnKey(p)]["user_name"] = "Wang Xiaoming"

(***************************************************************************)
(* The contract of the chat endpoints, checked under SpecStream            *)
(* (event_generator) and SpecChat (run_agent, chat_with_agent).            *)
(***************************************************************************)
\* the text fragments of the parts of a content, in list order: the text of
\* every part that has one and whose text is not empty
RECURSIVE PartFragments(_)
PartFragments(parts) ==
    IF Len(parts) = 0 THEN <<>>
    ELSE LET part == Head(parts)
             has_text == /\ part.t = "obj"
                         /\ "text" \in DOMAIN part.attrs
                         /\ part.attrs.text.t = "str"
                         /\ part.attrs.text.s # ""
         IN  (IF has_text THEN <<part.attrs.text.s>> ELSE <<>>) \o PartFragments(Tail(parts))

EventFragments(event) ==
    IF /\ "content" \in DOMAIN event.attrs
       /\ event.attrs.content.t = "obj"
       /\ "parts" \in DOMAIN event.attrs.content.attrs
       /\ event.attrs.content.attrs.parts.t = "list"
    THEN PartFragments(event.attrs.content.attrs.parts.items)
    ELSE <<>>

\* the text fragments of a sequence of raw events, in arrival order
RECURSIVE Fragments(_)
Fragments(events) ==
    IF Len(events) = 0 THEN <<>>
    ELSE EventFragments(Head(events)) \o Fragments(Tail(events))

FramesOf(texts) == [i \in 1..Len(texts) |-> Frame(texts[i])]

\* the frames of the yields that end a stream: the sentinel and the error frame
IsTerminal(frame) == frame.kind \in {"done", "error"}
Terminals(frames) == {i \in 1..Len(frames) : IsTerminal(frames[i])}

\* the frames before the terminal frame, if one was emitted
TextFramesOf(frames) ==
    IF Len(frames) > 0 /\ IsTerminal(frames[Len(frames)])
    THEN SubSeq(frames, 1, Len(frames) - 1) ELSE frames

IsPrefix(s, t) == Len(s) <= Len(t) /\ SubSeq(t, 1, Len(s)) = s

\* C12: the stream of a known agent, the client staying connected, ends with
\* exactly one terminal frame and nothing after it: the sentinel data: [DONE]
\* when session resolution and the whole raw event sequence went through
\* without an exception, the frame data: Error: <message> of the exception
\* otherwise; before the end no terminal frame has been emitted.
C12_ExactlyOneTerminalFrame ==
    \A p \in Handlers :
        (turn[p].endpoint = "stream" /\ ~turn[p].disconnected) =>
            LET f == turn[p].frames
            IN  /\ turn[p].pc \in {"session", "pump", "text_frame"} => Terminals(f) = {}
                /\ turn[p].pc \in {"done_frame", "error_frame", "finished"} =>
                      /\ Terminals(f) = {Len(f)}
                      /\ (turn[p].raised = None /\ pc[p] # "failed") => f[Len(f)] = DONE
                      /\ turn[p].raised # None => f[Len(f)] = ErrorFrame(turn[p].raised)
                      /\ pc[p] = "failed" => f = <<ErrorFrame(error[p])>>

C12_Witness ==
    /\ turn[1].endpoint = "stream"
    /\ turn[1].pc = "finished"
    /\ turn[1].events = <<EvText>>
    /\ Wire(turn[1].frames) = <<"data: a\n\n", "data: b\n\n", "data: [DONE]\n\n">>

\* C13: the text frames of a stream are the text fragments of the raw events
\* received, one frame each, in arrival order and in part order; they are all
\* forwarded before the next event is awaited; when an exception ends the turn
\* after k fragments the stream is those k frames and then the one error frame.
C13_TextFramesInOrder ==
    \A p \in Handlers :
        turn[p].endpoint = "stream" =>
            LET f == turn[p].frames
                expected == FramesOf(Fragments(turn[p].events))
            IN  /\ IsPrefix(TextFramesOf(f), expected)
                /\ turn[p].pc \in {"pump", "done_frame", "error_frame", "finished"} =>
                      TextFramesOf(f) = expected
                /\ (turn[p].raised # None /\ turn[p].pc # "responded") =>
                      f = expected \o <<ErrorFrame(turn[p].raised)>>

C13_Witness ==
    /\ turn[1].endpoint = "stream"
    /\ turn[1].raised = RunnerError
    /\ turn[1].events = <<EvText, EvSparseText>>
    /\ Wire(turn[1].frames) = <<"data: a\n\n", "data: b\n\n", "data: c\n\n",
                          "data: Error: runner failed\n\n">>

\* C14: processing a raw event never raises because an optional field of the
\* event or of a descriptor is missing, None or empty: no turn ends with an
\* exception of the loop body.
C14_NormalizingNeverRaises ==
    \A p \in Handlers : turn[p].raised \notin {TypeError, AttributeError}

\* C15: the sub-events of one raw event come in the shape-priority order:
\* function_calls, the function_call of the parts, actions.tool_calls,
\* tool_calls, function_responses, the function_response of the parts,
\* tool_results, then the texts; every ToolCall precedes every ToolResult.
C15_ShapePriorityOrder ==
    \A p \in Handlers :
        (turn[p].endpoint = "chat" /\ turn[p].pc = "pump" /\ Len(turn[p].events) > 0) =>
            LET event == turn[p].events[Len(turn[p].events)]
                sub == turn[p].extracted
                nested == content_parts_block(event).sub
                IsCall(e) == e.kind = "ToolCall"
                IsResult(e) == e.kind = "ToolResult"
            IN  /\ sub = function_calls_block(event).sub
                         \o SelectSeq(nested, IsCall)
                         \o actions_tool_calls_block(event).sub
                         \o tool_calls_block(event).sub
                         \o function_responses_block(event).sub
                         \o SelectSeq(nested, IsResult)
                         \o tool_results_block(event).sub
                         \o text_block(event).sub
                /\ \A i, j \in 1..Len(sub) :
                      (sub[i].kind = "ToolResult" /\ sub[j].kind = "ToolCall") => j < i

\* the call descriptors an event exposes, shape by shape
ListLen(o, a) ==
    IF a \in DOMAIN o.attrs /\ o.attrs[a].t = "list" THEN Len(o.attrs[a].items) ELSE 0
NestedCalls(event) ==
    IF "content" \in DOMAIN event.attrs /\ event.attrs.content.t = "obj"
       /\ "parts" \in DOMAIN event.attrs.content.attrs
       /\ event.attrs.content.attrs.parts.t = "list"
    THEN LET parts == event.attrs.content.attrs.parts.items
         IN  Cardinality({i \in 1..Len(parts) :
                 /\ parts[i].t = "obj"
                 /\ "function_call" \in DOMAIN parts[i].attrs
                 /\ parts[i].attrs.function_call.t = "obj"})
    ELSE 0
ActionCalls(event) ==
    IF "actions" \in DOMAIN event.attrs /\ event.attrs.actions.t = "obj"
    THEN ListLen(event.attrs.actions, "tool_calls") ELSE 0
CallDescriptors(event) ==
    ListLen(event, "function_calls") + NestedCalls(event) + ActionCalls(event)
        + ListLen(event, "tool_calls")

\* C16: the ToolCall sub-events extracted from one raw event are as many as the
\* call descriptors of all its call shapes together, none merged across shapes.
C16_OneToolCallPerDescriptor ==
    \A p \in Handlers :
        (turn[p].endpoint = "chat" /\ Len(turn[p].events) > 0) =>
            LET event == turn[p].events[Len(turn[p].events)]
                sub == turn[p].extracted
            IN  Cardinality({i \in 1..Len(sub) : sub[i].kind = "ToolCall"})
                    = CallDescriptors(event)

\* C17 as stated: when the raw event sequence ends without error run_agent
\* returns the concatenation of all text fragments in arrival order.
C17_ReturnsConcatenation ==
    \A p \in Handlers :
        (turn[p].endpoint = "chat" /\ turn[p].response.status = 200) =>
            turn[p].response.response = Join(Fragments(turn[p].events))

\* C17 as amended: when the raw event sequence ends without error after at
\* least one text fragment, run_agent returns the concatenation of all text
\* fragments in arrival order (events in arrival order, parts in list order),
\* nothing dropped, duplicated or reordered; after no fragment at all it
\* returns the fallback string, not the empty concatenation.
C17_ReturnsConcatenationOrFallback ==
    \A p \in Handlers :
        (turn[p].endpoint = "chat" /\ turn[p].response.status = 200) =>
            LET fragments == Fragments(turn[p].events)
            IN  /\ turn[p].response_parts = fragments
                /\ Len(fragments) > 0 => turn[p].response.response = Join(fragments)
                /\ Len(fragments) = 0 => turn[p].response.response = FALLBACK

C17_Witness ==
    /\ turn[1].endpoint = "chat"
    /\ turn[1].events = <<EvSparseText, EvText>>
    /\ turn[1].response.status = 200
    /\ turn[1].response.response = "cab"

\* C18: run_agent returns the fallback string exactly when the completed raw
\* event sequence produced no text fragment.
C18_FallbackIffNoText ==
    \A p \in Handlers :
        (turn[p].endpoint = "chat" /\ turn[p].response.status = 200) =>
            (turn[p].response.response = FALLBACK <=> Len(Fragments(turn[p].events)) = 0)

C18_Witness ==
    /\ turn[1].endpoint = "chat"
    /\ turn[1].events = <<EvTwoShapes, EvAllEmpty>>
    /\ turn[1].response.status = 200
    /\ turn[1].response.response = FALLBACK

\* C19: when the runner raises, after whatever text was collected, the chat
\* endpoint answers 500 with the error's message and no response text, neither
\* the text collected nor the fallback; the 404 of an unknown agent is answered
\* as 404, not as 500.
C19_PumpErrorIs500AgentUnknownIs404 ==
    \A p \in Handlers :
        (turn[p].endpoint = "chat" /\ turn[p].pc = "responded") =>
            /\ turn[p].raised = RunnerError =>
                  turn[p].response = [status |-> 500, detail |-> RunnerError]
            /\ turn[p].raised # None => "response" \notin DOMAIN turn[p].response
            /\ turn[p].response.status = 200 => turn[p].raised = None
            /\ req[p].agent_id \notin AgentIds =>
                  turn[p].response =
                      [status |-> 404, detail |-> "agent not found: " \o req[p].agent_id]
            /\ turn[p].response.status = 404 => req[p].agent_id \notin AgentIds

C19_Witness ==
    /\ turn[1].endpoint = "chat"
    /\ turn[1].raised = RunnerError
    /\ turn[1].response_parts = <<"a", "b">>
    /\ turn[1].response.status = 500
    /\ turn[1].response.detail = "runner failed"

\* C20: once the client has disconnected while the generator was suspended at a
\* frame, the turn is closed: that step and every later one request no raw
\* event, emit no frame and leave the sessions as they are.
C20_NothingAfterDisconnect ==
    [][\A p \in Handlers :
          turn'[p].disconnected =>
              /\ turn'[p].pc = "closed"
              /\ turn'[p].frames = turn[p].frames
              /\ turn'[p].events = turn[p].events
              /\ sessions' = sessions]_vars

C20_Witness ==
    /\ turn[1].disconnected
    /\ turn[1].pc = "closed"
    /\ turn[1].events = <<EvText>>
    /\ Wire(turn[1].frames) = <<"data: a\n\n">>

(***************************************************************************)
(* The turn as a whole: one reader, the endpoints and their effects.       *)
(***************************************************************************)
\* C21: within a turn the raw events are consumed by one reader in sequence:
\* the runner is asked for raw event n+1 only when every sub-event of raw
\* event n has been handed over (its texts appended to response_parts, or
\* each of its frames delivered to the stream), with nothing left pending.
C21_NextEventAfterDispatch ==
    [][\A p \in Handlers :
          Len(turn'[p].events) > Len(turn[p].events) =>
              /\ turn[p].pc = "pump"
              /\ Len(turn'[p].events) = Len(turn[p].events) + 1
              /\ turn[p].pending = <<>>
              /\ turn[p].pending_exc = None
              /\ turn[p].endpoint = "stream" =>
                    turn[p].frames = FramesOf(Fragments(turn[p].events))
              /\ turn[p].endpoint = "chat" =>
                    turn[p].response_parts = Fragments(turn[p].events)]_vars

C21_Witness ==
    /\ turn[1].endpoint = "stream"
    /\ turn[1].pc = "text_frame"
    /\ turn[1].events = <<EvText, EvSparseText>>
    /\ Wire(turn[1].frames) = <<"data: a\n\n", "data: b\n\n", "data: c\n\n">>

\* C22: for an agent id that is not in the registry the blocking chat, the
\* streaming chat, the /chat alias and the session endpoint answer 404
\* NotFound, and before any effect: the identity resolver is not called, no
\* session is created or modified, no turn is run, no frame is sent.
C22_UnknownAgentIs404BeforeAnyEffect ==
    /\ [](\A p \in Handlers :
             (/\ turn[p].endpoint \in {"chat", "stream", "sessions"}
              /\ ~HasKey(AGENT_REGISTRY, req[p].agent_id)) =>
                 /\ turn[p].pc = "responded"
                 /\ turn[p].response =
                       [status |-> 404, detail |-> "agent not found: " \o req[p].agent_id]
                 /\ pc[p] = "idle"
                 /\ resolver_calls[p] = 0
                 /\ user_info[p] = NoInfo
                 /\ turn[p].runs = 0
                 /\ turn[p].events = <<>>
                 /\ turn[p].frames = <<>>)
    /\ [][\A p \in Handlers :
             (/\ turn'[p].endpoint \in {"chat", "stream", "sessions"}
              /\ ~HasKey(AGENT_REGISTRY, req'[p].agent_id)) =>
                 /\ sessions' = sessions
                 /\ created' = created
                 /\ nextUuid' = nextUuid]_vars

C22_Witness ==
    /\ turn[1].route = "/chat"
    /\ req[1].agent_id = "no_such_agent"
    /\ turn[1].pc = "responded"
    /\ turn[1].response.status = 404

Stage(t) ==
    CASE t.pc = "idle" -> 0
      [] t.pc = "session" -> 1
      [] t.pc \in {"pump", "text_frame"} -> 2
      [] OTHER -> 3
Failed(t) == t.raised # None
Completed(t) == t.response.status = 200 \/ (Len(t.frames) > 0 /\ t.frames[Len(t.frames)] = DONE)

\* C24: a chat request goes Idle -> Dispatched -> Running -> Completed or
\* Failed and never back: the session is resolved (once) before the runner is
\* started, the runner is started at most once per request, and once the
\* request has failed or completed no raw event is requested, no run is
\* started, no session resolution is made and the outcome stays what it is.
C24_TurnLifecycle ==
    /\ [](\A p \in Handlers :
             turn[p].endpoint \in {"chat", "stream"} =>
                 /\ turn[p].runs <= 1
                 /\ resolver_calls[p] <= 1
                 /\ Stage(turn[p]) = 2 => turn[p].runs = 1
                 /\ turn[p].runs = 1 =>
                       /\ pc[p] = "running"
                       /\ resolver_calls[p] = 1
                       /\ TurnKey(p) \in DOMAIN sessions
                 /\ Len(turn[p].events) > 0 => turn[p].runs = 1
                 /\ (Stage(turn[p]) = 3 /\ ~turn[p].disconnected) =>
                       (Failed(turn[p]) # Completed(turn[p])))
    /\ [][\A p \in Handlers :
             turn[p].endpoint \in {"chat", "stream"} =>
                 /\ Stage(turn'[p]) >= Stage(turn[p])
                 /\ Stage(turn'[p]) <= Stage(turn[p]) + 1 \/ Failed(turn'[p])
                 /\ (Failed(turn[p]) \/ Completed(turn[p])) =>
                       /\ Stage(turn'[p]) = 3
                       /\ Failed(turn'[p]) = Failed(turn[p])
                       /\ Completed(turn'[p]) = Completed(turn[p])
                       /\ turn'[p].events = turn[p].events
                       /\ turn'[p].runs = turn[p].runs
                       /\ turn'[p].response = turn[p].response
                       /\ resolver_calls'[p] = resolver_calls[p]
                       /\ pc'[p] = pc[p]
                       /\ sessions' = sessions]_vars

C24_Witness ==
    /\ turn[1].endpoint = "chat"
    /\ turn[1].pc = "responded"
    /\ turn[1].raised = RunnerError
    /\ turn[1].runs = 1
    /\ resolver_calls[1] = 1
    /\ turn[1].events = <<EvText>>

\* the state a new session is seeded with for a request user id: the non-null
\* attributes of the resolved identity and is_registered = true
SeededState(user_id) ==
    LET identity == get_user_by_id_or_create_guest(user_id)
        present == {f \in {"user_id", "user_name", "department", "email",
                           "job_title", "phone"} : identity[f] # None}
    IN  [k \in present \cup {"is_registered"} |->
            IF k = "is_registered" THEN TRUE ELSE identity[k]]

\* C25: get_or_create_session given a session_id that does not exist under
\* (agent, user_id) creates the session under exactly that id and returns it;
\* given no session_id it creates the session under a freshly generated id;
\* either way the new state is exactly the resolved identity's non-null
\* attributes plus is_registered = true, and no other session is touched.
C25_CreatesUnderSuppliedOrFreshId ==
    [][\A p \in Handlers :
          LET supplied == HasSessionId(req[p].session_id)
              before == <<"agent_" \o req[p].agent_id, req[p].user_id, req[p].session_id>>
              key == <<"agent_" \o req[p].agent_id, req[p].user_id, result'[p]>>
          IN  (/\ pc[p] = "create"
               /\ pc'[p] # "create"
               /\ supplied => before \notin DOMAIN sessions) =>
                  /\ pc'[p] = "running"
                  /\ supplied => result'[p] = req[p].session_id
                  /\ ~supplied =>
                        /\ result'[p] \notin {None, ""}
                        /\ \A k \in DOMAIN sessions : k[3] # result'[p]
                  /\ key \notin DOMAIN sessions
                  /\ DOMAIN sessions' = DOMAIN sessions \cup {key}
                  /\ sessions'[key] = SeededState(req[p].user_id)
                  /\ \A k \in DOMAIN sessions : sessions'[k] = sessions[k]]_vars

C25_Witness ==
    \E p \in Handlers :
        /\ pc[p] = "running"
        /\ req[p].user_id = "zzzz"
        /\ req[p].session_id = None
        /\ result[p] = "uuid-1"
        /\ DOMAIN sessions[TurnKey(p)] =
              {"user_id", "user_name", "department", "email", "is_registered"}
        /\ sessions[TurnKey(p)]["email"] = "zzzz@guest.local"

\* the compound key a get_or_create_session call works on
RequestKey(agent_id, user_id, session_id) == <<"agent_" \o agent_id, user_id, session_id>>

\* C26: sessions are isolated by the compound key (agent namespace, user_id,
\* session_id): a step of a get_or_create_session call leaves the existence,
\* the state and the creation count of every session under any other key as
\* they were, and the same user_id and session_id under two different agents
\* are two sessions.
C26_SessionsIsolatedByCompoundKey ==
    /\ [][\A p \in Handlers :
             (pc[p] \in {"resolve", "get", "create"} /\ pc'[p] # pc[p]) =>
                 LET own == RequestKey(req[p].agent_id, req[p].user_id,
                                       IF HasSessionId(req[p].session_id)
                                       THEN req[p].session_id ELSE result'[p])
                 IN  \A key \in (DOMAIN sessions \cup DOMAIN sessions') \ {own} :
                        /\ key \in DOMAIN sessions
                        /\ key \in DOMAIN sessions'
                        /\ sessions'[key] = sessions[key]
                        /\ Count(key) = IF key \in DOMAIN created' THEN created'[key] ELSE 0]_vars
    /\ [](\A p, q \in Handlers :
             (/\ pc[p] = "running" /\ pc[q] = "running"
              /\ req[p].agent_id # req[q].agent_id) =>
                 /\ TurnKey(p) # TurnKey(q)
                 /\ TurnKey(p) \in DOMAIN sessions
                 /\ TurnKey(q) \in DOMAIN sessions)

C26_Witness ==
    LET a == <<"agent_meeting_room", "EMP001", "s1">>
        b == <<"agent_expense", "EMP001", "s1">>
    IN  /\ a \in DOMAIN sessions
        /\ b \in DOMAIN sessions
        /\ "tool_key" \in DOMAIN sessions[a]
        /\ "tool_key" \notin DOMAIN sessions[b]
        /\ \E p, q \in Handlers : pc[p] = "running" /\ pc[q] = "running"
                                  /\ TurnKey(p) = a /\ TurnKey(q) = b

\* C27: the guard is a pure decision over (tool name, args, session state):
\* it never writes to the session state, changes no key of args other than
\* user_id, and when it blocks it leaves args entirely unchanged.
C27_GuardOnlyMutatesUserIdArg ==
    /\ [][g_state' = g_state]_vars
    /\ [](g_pc # "ready" =>
             /\ DOMAIN g_args \subseteq DOMAIN g_function_args \cup {"user_id"}
             /\ \A k \in DOMAIN g_function_args \ {"user_id"} :
                   k \in DOMAIN g_args /\ g_args[k] = g_function_args[k]
             /\ g_ret # NoneRet => g_args = g_function_args)

C27_Witness ==
    /\ g_pc = "blocked"
    /\ g_tool_name = "book_room"
    /\ g_state = [is_registered |-> FALSE, user_id |-> "EMP001"]
    /\ g_function_args = [topic |-> "t", user_id |-> "EMP002"]
    /\ g_args = g_function_args

\* C28: after startup no request mutates the agent registry: every step of
\* every endpoint (list, lookup, sessions, chat, stream) leaves it as
\* load_agents built it; listing returns the descriptors in insertion order
\* and the lookup of an absent id fails with 404 NotFound.
C28_RegistryReadOnlyAfterStartup ==
    /\ [][AGENT_REGISTRY' = AGENT_REGISTRY]_vars
    /\ [](/\ Keys(AGENT_REGISTRY) = AgentOrder
          /\ \A p \in Handlers :
                /\ turn[p].endpoint = "list_agents" =>
                      turn[p].response =
                          [status |-> 200,
                           body |-> [i \in 1..Len(AgentOrder) |->
                                        [agent_id |-> AgentOrder[i],
                                         name |-> AgentName(AgentOrder[i]),
                                         description |-> AgentDescription(AgentOrder[i])]]]
                /\ turn[p].endpoint = "get_agent_info" =>
                      IF req[p].agent_id \in AgentIds
                      THEN /\ turn[p].response.status = 200
                           /\ turn[p].response.body.agent_id = req[p].agent_id
                           /\ turn[p].response.body.name = AgentName(req[p].agent_id)
                      ELSE turn[p].response.status = 404)

C28_Witness ==
    /\ turn[1].endpoint = "list_agents"
    /\ turn[1].pc = "responded"
    /\ Len(turn[1].response.body) = 7
    /\ turn[1].response.body[1].agent_id = "meeting_room"
    /\ turn[1].response.body[7].agent_id = "order"
    /\ AGENT_REGISTRY = load_agents

\* C29: the blocking and the streaming consumer agree on every raw event
\* sequence: the stream ends in an error frame exactly when run_agent raises
\* on the same sequence, and otherwise the streamed text payloads are the
\* texts run_agent joins into its result (none exactly when run_agent returns
\* the fallback string).
C29_ConsumersAgree ==
    \A p \in Handlers :
        (/\ turn[p].endpoint = "stream"
         /\ turn[p].pc \in {"done_frame", "error_frame", "finished"}
         /\ ~turn[p].disconnected
         /\ pc[p] = "running") =>
            LET f == turn[p].frames
                r == run_agent_loop(turn[p].events, <<>>)
                runner_raised == turn[p].raised = RunnerError
                run_agent_raises == runner_raised \/ r.exc # None
            IN  /\ (f[Len(f)] # DONE) <=> run_agent_raises
                /\ ~run_agent_raises =>
                      /\ TextFramesOf(f) = FramesOf(r.response_parts)
                      /\ (Len(TextFramesOf(f)) = 0) <=>
                            (final_response(r.response_parts) = FALLBACK)
                      /\ Len(TextFramesOf(f)) > 0 =>
                            final_response(r.response_parts) = Join(r.response_parts)

\* C30: for every session get_or_create_session created or refreshed, the
\* user_id held in the session state (the id the guard injects into tools) is
\* the user_id the session is keyed under and the one the chat response
\* reports, for every request user_id, case variants of a directory id
\* included.
C30_StateUserIdIsKeyUserId ==
    \A p \in Handlers :
        (turn[p].endpoint = "chat" /\ pc[p] = "running") =>
            LET key == TurnKey(p)
            IN  /\ key \in DOMAIN sessions
                /\ sessions[key]["user_id"] = key[2]
                /\ turn[p].response.status = 200 =>
                      turn[p].response.user_id = sessions[key]["user_id"]

(***************************************************************************)
(* Identity in the session state and in the frames of a stream.            *)
(***************************************************************************)
\* C31: in every session get_or_create_session produced, is_registered = true
\* comes with a user_id that is not None, so every call to a gated tool that
\* the guard allows on such a session reaches the tool with a user_id
\* argument that is not None.
C31_RegisteredHasUserId ==
    /\ \A key \in DOMAIN sessions :
          Truthy(sessions[key], "is_registered") =>
              /\ "user_id" \in DOMAIN sessions[key]
              /\ sessions[key]["user_id"] # None
    /\ \A p \in Handlers :
          (/\ tool_exec[p].called
           /\ tool_exec[p].guard_invoked
           /\ tool_exec[p].executed
           /\ tool_exec[p].tool_name \in user_validation_callback.tools_requiring_user.names) =>
              /\ "user_id" \in DOMAIN tool_exec[p].args
              /\ tool_exec[p].args["user_id"] # None
              /\ tool_exec[p].args["user_id"] = sessions[TurnKey(p)]["user_id"]

C31_Witness ==
    \E p \in Handlers :
        /\ tool_exec[p].called
        /\ tool_exec[p].executed
        /\ tool_exec[p].tool_name = "book_room"
        /\ req[p].user_id = "zzzz"
        /\ tool_exec[p].args["user_id"] = "zzzz"

\* the strings by which a consumer recognises the end of a stream
IsSentinelData(data) == data = "data: [DONE]\n\n"
IsErrorData(data) == Len(data) >= 13 /\ SubSeq(data, 1, 13) = "data: Error: "

\* C32: in every stream, whatever the text fragments are, a frame equal to
\* data: [DONE] and a frame that starts with data: Error: occur only as the
\* last frame, the one that ends the stream: no text frame reads like either.
C32_TerminalFramesDistinguishable ==
    \A p \in Handlers :
        turn[p].endpoint = "stream" =>
            LET f == turn[p].frames
            IN  \A i \in 1..Len(f) :
                   (IsSentinelData(f[i].data) \/ IsErrorData(f[i].data)) =>
                       /\ i = Len(f)
                       /\ IsTerminal(f[i])

(***************************************************************************)
(* The bookings of the meeting_room agent.                                 *)
(***************************************************************************)
\* the last call ran the tool function (the callback returned None) and the
\* function returned success
ToolSucceeded(call, tool_name) ==
    /\ call.tool_name = tool_name
    /\ call.result.status = "success"

\* C33: cancel_booking succeeds on a booking only in a turn whose session is
\* registered and whose state user_id is the user_id book_room recorded on the
\* booking, whatever user_id the call supplied; a cancel that does not succeed
\* leaves BOOKINGS as it was.
C33_OnlyOwnerSessionCancels ==
    mr_call.tool_name = "cancel_booking" =>
        IF mr_call.result.status = "success"
        THEN LET booking == mr_call.before[mr_call.result.booking_id]
             IN  /\ Truthy(mr_call.state, "is_registered")
                 /\ Get(mr_call.state, "user_id") = booking.user_id
                 /\ booking.status = "confirmed"
                 /\ BOOKINGS[booking.booking_id].status = "cancelled"
        ELSE BOOKINGS = mr_call.before

\* a session cancels its own booking in a call that names another user, after
\* another session's cancel of the same booking failed
C33_Witness ==
    /\ ToolSucceeded(mr_call, "cancel_booking")
    /\ "user_id" \in DOMAIN mr_call.function_args
    /\ mr_call.function_args.user_id # Get(mr_call.state, "user_id")
    /\ Get(mr_call.state, "user_id") = "EMP002"

\* two bookings hold the same room on the same calendar day in the same slot
SameSlot(a, b) ==
    /\ a.room_id = b.room_id
    /\ strptime(a.date).day = strptime(b.date).day
    /\ a.time_slot = b.time_slot

\* the call book_room was asked for names a slot a confirmed booking holds
AsksOccupiedSlot(call) ==
    /\ call.tool_name = "book_room"
    /\ call.result.status # "blocked"
    /\ strptime(call.args.date).ok
    /\ \E id \in DOMAIN call.before :
           /\ call.before[id].status = "confirmed"
           /\ call.before[id].room_id = Upper(call.args.room_id)
           /\ strptime(call.before[id].date).day = strptime(call.args.date).day
           /\ call.before[id].time_slot = call.args.time_slot

\* C34: no two confirmed bookings refer to the same room on the same day in
\* the same time slot, and book_room on an occupied slot returns an error and
\* adds no booking.
C34_NoDoubleBooking ==
    /\ \A a, b \in DOMAIN BOOKINGS :
           (/\ a # b
            /\ BOOKINGS[a].status = "confirmed"
            /\ BOOKINGS[b].status = "confirmed") =>
               ~SameSlot(BOOKINGS[a], BOOKINGS[b])
    /\ AsksOccupiedSlot(mr_call) =>
           /\ mr_call.result.status = "error"
           /\ BOOKINGS = mr_call.before

(***************************************************************************)
(* The order workflow.                                                     *)
(***************************************************************************)
\* the entries of an order's workflow_log with the given step
StepEntries(order, step) ==
    {i \in 1..Len(order.workflow_log) : order.workflow_log[i].step = step}

\* C35: after any sequence of tool calls on any number of orders, the stock of
\* every SKU in INVENTORY is never negative.
C35_StockNeverNegative ==
    \A sku \in DOMAIN INVENTORY : INVENTORY[sku].stock >= 0

\* C36: process_order succeeds at most once per order, and an order that
\* reached shipped does not leave that state through validate_order,
\* check_inventory, check_risk or reject_order.
C36_ShippedAtMostOnce ==
    /\ \A id \in DOMAIN ORDERS_DB :
           Cardinality(StepEntries(ORDERS_DB[id], "shipped")) <= 1
    /\ (/\ order_call.tool_name \in {"validate_order", "check_inventory",
                                     "check_risk", "reject_order"}
        /\ order_call.status_before = "shipped") =>
           ORDERS_DB[order_call.order_id].status = "shipped"

\* the order's log holds the automated check, passed, or the check followed by
\* the human decision that resolves its failure
CheckPassedOrResolved(order, step, decision_steps) ==
    \E i \in StepEntries(order, step) :
        \/ order.workflow_log[i].result \in {"passed", "sufficient"}
        \/ \E j \in (i + 1)..Len(order.workflow_log) :
               order.workflow_log[j].step \in decision_steps

\* C37: an order is shipped only after validation, inventory check and risk
\* check passed on it or their failure was resolved by a human decision; none
\* is shipped without check_inventory and check_risk having been run on it.
C37_ShippedOnlyAfterChecks ==
    \A id \in DOMAIN ORDERS_DB :
        ORDERS_DB[id].status = "shipped" =>
            /\ CheckPassedOrResolved(ORDERS_DB[id], "validation", {"manual_approval"})
            /\ CheckPassedOrResolved(ORDERS_DB[id], "inventory_check", {"stock_decision"})
            /\ CheckPassedOrResolved(ORDERS_DB[id], "risk_check", {"manual_approval"})

\* C38: every entry of REVIEW_QUEUE refers to an order that awaits a human
\* decision, and after a human decision resolved an order no entry for it
\* remains.
C38_QueueHoldsOnlyWaitingOrders ==
    /\ \A i \in 1..Len(REVIEW_QUEUE) :
           ORDERS_DB[REVIEW_QUEUE[i].order_id].status
               \in {"pending_review", "stock_issue", "risk_alert"}
    /\ (/\ order_call.tool_name \in {"approve_order", "reject_order",
                                     "handle_stock_decision"}
        /\ order_call.result.status = "success") =>
           \A i \in 1..Len(REVIEW_QUEUE) :
               REVIEW_QUEUE[i].order_id # order_call.order_id

(***************************************************************************)
(* The expense workflow.                                                   *)
(***************************************************************************)
\* the status of an expense that waits at a step of its workflow list
WaitingStatus ==
    [step \in {MANAGER_REVIEW, DIRECTOR_REVIEW, CEO_REVIEW, FINANCE_REVIEW, PAYMENT} |->
        CASE step = MANAGER_REVIEW -> {PENDING_MANAGER}
          [] step = DIRECTOR_REVIEW -> {PENDING_DIRECTOR}
          [] step = CEO_REVIEW -> {}
          [] step = FINANCE_REVIEW -> {PENDING_FINANCE}
          [] step = PAYMENT -> {APPROVED}]

\* C39: an expense above 50,000 reaches PENDING_FINANCE only after the
\* approvals of the manager, director and general-manager steps, and the
\* steps an expense passes through are those of the workflow list recorded
\* for it at submit time: while it waits for an approval it waits at the
\* step of that list that its count of passed steps names.
C39_StepsFollowWorkflow ==
    \A id \in DOMAIN EXPENSE_REPORTS :
        LET expense == EXPENSE_REPORTS[id]
        IN  /\ (expense.amount > APPROVAL_LIMITS.director
                /\ expense.status = PENDING_FINANCE) =>
                   expense.current_step = 3
            /\ expense.status \in {PENDING_MANAGER, PENDING_DIRECTOR, PENDING_FINANCE} =>
                   /\ expense.current_step < Len(expense.workflow)
                   /\ expense.status
                          \in WaitingStatus[expense.workflow[expense.current_step + 1]]

\* C40: PAID and REJECTED are terminal under approve_expense and
\* process_payment, and process_payment succeeds only on an expense whose
\* status is APPROVED.
C40_PaidAndRejectedAreTerminal ==
    /\ (/\ expense_call.tool_name \in {"approve_expense", "process_payment"}
        /\ expense_call.status_before \in {PAID, REJECTED}) =>
           EXPENSE_REPORTS[expense_call.expense_id].status = expense_call.status_before
    /\ (/\ expense_call.tool_name = "process_payment"
        /\ expense_call.result.status = "success") =>
           expense_call.status_before = APPROVED

====
